---- MODULE Spec2Model ----
(***************************************************************************)
(* Matching and arbitrage detection engine of poly-kalshi-arb.             *)
(*                                                                         *)
(* Conventions of the model                                                *)
(*  - prices, costs and profit percentages are whole cents (0.48 -> 48,    *)
(*    1.0 -> 100), so the arithmetic of the walk is exact;                 *)
(*  - Python lists are sequences, so indices start at 1 where the code     *)
(*    starts at 0 (yes_idx = 1 is the code's yes_idx = 0);                 *)
(*  - a call that is running is a frame record holding its locals and a   *)
(*    pc field; the whole call is the frame iterated until it returns.     *)
(***************************************************************************)
EXTENDS Integers, Sequences, FiniteSets, TLC

VARIABLES
    scenario,             \* which operation of the engine this behaviour exercises
    status,               \* of that call: "called", "returned", or the exception raised
    kalshi_markets,       \* find_matches: the Kalshi market list passed in
    poly_markets,         \* find_matches: the Polymarket market list passed in
    threshold,            \* FuzzyMatcher.threshold
    scores,               \* find_matches: the similarity matrix, once computed
    matches,              \* find_matches: the list returned
    yes_asks,             \* _walk_orderbook: the YES ask ladder passed in
    no_asks,              \* _walk_orderbook: the NO ask ladder passed in
    walk,                 \* _walk_orderbook: the frame of the running call
    fills,                \* history: the heads and quantity of each emitted level
    passes,               \* history: the loop passes the running call has made
    pair,                 \* calculate_opportunity: the MarketPair passed in
    kalshi_orderbook,     \* calculate_opportunity: the Kalshi book passed in
    poly_orderbook,       \* calculate_opportunity: the Polymarket book passed in
    opp,                  \* calculate_opportunity: the value returned
    pairs,                \* find_all_opportunities: the pair list passed in
    kalshi_orderbooks,    \* find_all_opportunities: market id -> Kalshi book
    poly_orderbooks,      \* find_all_opportunities: market id -> Polymarket book
    opportunities,        \* find_all_opportunities: the list returned
    fee_call,             \* FeeCalculator: the arguments of the call
    fee,                  \* FeeCalculator: the value returned, in cents
    runs,                 \* repeated calls on the same arguments: what each returned
    response,             \* get_orderbook: the venue's response to the request
    book,                 \* get_orderbook: the Orderbook returned
    bot,                  \* ArbitrageBot.run: the bot's fields and the frame of the call
    cycle                 \* _poll_cycle: what the venues answer, and the frame of the call

vars == <<scenario, status, kalshi_markets, poly_markets, threshold, scores,
          matches, yes_asks, no_asks, walk, fills, pair, kalshi_orderbook,
          poly_orderbook, opp, pairs, kalshi_orderbooks, poly_orderbooks,
          opportunities, fee_call, fee, passes, runs, response, book, bot,
          cycle>>

calcVars == <<pair, kalshi_orderbook, poly_orderbook, opp>>

allVars == <<pairs, kalshi_orderbooks, poly_orderbooks, opportunities>>

feeVars == <<fee_call, fee>>

matchVars == <<kalshi_markets, poly_markets, threshold, scores, matches>>

walkVars == <<yes_asks, no_asks, walk, fills, passes>>

rerunVars == <<runs>>

clientVars == <<response, book>>

botVars == <<bot, cycle>>

----------------------------------------------------------------------------
(* Bounds and input domains                                                *)

\* Longest ask ladder given to a single walk.
MaxDepth == 2

\* Price levels a ladder of the walk scenario is built from: well-formed
\* levels (two prices, sizes 0, 10 and 20) and two malformed ones (a negative
\* size, a price below 0).
WalkLevels ==
    [price : {45, 53}, size : {0, 10, 20}]
        \cup {[price |-> 45, size |-> -5], [price |-> -10, size |-> 10]}

\* Most markets one venue lists in a matching run.
MaxMarkets == 2

\* Raw market titles, one character per element.
Titles ==
    { <<"b", " ", "a">>,
      <<"A", ",", " ", "b", "?">>,
      <<"a", " ", "b", " ", "c">>,
      <<"a", " ", "c">>,
      <<"a", " ", " ", "d">> }

\* Values of the matcher's threshold: one that scores of the titles above
\* reach exactly, and the default of the settings.
Thresholds == {75, 80}

\* Price levels the books of one calculate_opportunity call are built from.
CalcLevels ==
    {[price |-> 45, size |-> 10], [price |-> 50, size |-> 20], [price |-> 53, size |-> 10]}

\* Most pairs given to one find_all_opportunities call.
MaxPairs == 2

\* The ask sides of the books a venue may return for a market of a pair.
BookAsks ==
    { [yes_asks |-> <<[price |-> 45, size |-> 10], [price |-> 50, size |-> 20]>>,
       no_asks |-> <<[price |-> 45, size |-> 20], [price |-> 53, size |-> 10]>>],
      [yes_asks |-> <<[price |-> 50, size |-> 10]>>,
       no_asks |-> <<[price |-> 48, size |-> 10]>>],
      [yes_asks |-> <<[price |-> 53, size |-> 10]>>,
       no_asks |-> <<[price |-> 53, size |-> 10]>>] }

\* Largest contract count of a fee call; the smallest is -1.
MaxContracts == 4

\* Prices of the second leg of estimate_total_fees, in cents.
LegPrices == {0, 50, 99}

SeqsUpTo(S, n) == UNION {[1..k -> S] : k \in 0..n}

Min(a, b) == IF a <= b THEN a ELSE b

Max(a, b) == IF a >= b THEN a ELSE b

RECURSIVE SumSeq(_)
SumSeq(s) == IF s = <<>> THEN 0 ELSE Head(s) + SumSeq(Tail(s))

----------------------------------------------------------------------------
(* models/market.py, models/orderbook.py, models/arbitrage.py              *)

KALSHI == "kalshi"
POLYMARKET == "polymarket"

OrderbookLevel(price, size) == [price |-> price, size |-> size]

ArbitrageLevel(yes_platform, yes_price, no_platform, no_price, qty, cost, profit, dollars) ==
    [buy_yes_platform |-> yes_platform,
     buy_yes_price |-> yes_price,
     buy_no_platform |-> no_platform,
     buy_no_price |-> no_price,
     quantity |-> qty,
     total_cost |-> cost,
     profit_percentage |-> profit,
     max_profit_dollars |-> dollars]

Orderbook(market_id, ybids, yasks, nbids, nasks) ==
    [market_id |-> market_id,
     yes_bids |-> ybids,
     yes_asks |-> yasks,
     no_bids |-> nbids,
     no_asks |-> nasks]

ArbitrageOpportunity(kalshi_market, poly_market, match_score, levels) ==
    [kalshi_market |-> kalshi_market,
     poly_market |-> poly_market,
     match_score |-> match_score,
     levels |-> levels]

\* ArbitrageOpportunity.best_profit_percentage
best_profit_percentage(o) ==
    IF o.levels # <<>> THEN o.levels[1].profit_percentage ELSE 0

\* Python's None.
None == [none |-> TRUE]

----------------------------------------------------------------------------
(* models/market.py: UnifiedMarket                                         *)

UnifiedMarket(platform, market_id, title) ==
    [platform |-> platform, market_id |-> market_id, title |-> title]

\* str.lower() on the characters titles are written in.
Lower(c) ==
    CASE c = "A" -> "a"
      [] c = "B" -> "b"
      [] c = "C" -> "c"
      [] c = "D" -> "d"
      [] OTHER -> c

\* The characters of \w and of \s; every other character is punctuation.
WordChars == {"a", "b", "c", "d", "A", "B", "C", "D"}
SpaceChars == {" "}

\* re.sub(r"[^\w\s]", " ", title)
PunctuationToSpace(title) ==
    [k \in 1..Len(title) |->
        IF title[k] \in WordChars \cup SpaceChars THEN title[k] ELSE " "]

\* str.split(): the maximal runs of non-space characters, in order.
RECURSIVE Split(_)
Split(s) ==
    IF s = <<>> THEN <<>>
    ELSE IF Head(s) \in SpaceChars THEN Split(Tail(s))
    ELSE LET rest == Split(Tail(s))
         IN  IF Len(s) > 1 /\ s[2] \notin SpaceChars
             THEN <<(<<Head(s)>> \o Head(rest))>> \o Tail(rest)
             ELSE <<(<<Head(s)>>)>> \o rest

\* " ".join(tokens)
RECURSIVE Join(_)
Join(tokens) ==
    IF tokens = <<>> THEN <<>>
    ELSE IF Len(tokens) = 1 THEN Head(tokens)
    ELSE Head(tokens) \o <<" ">> \o Join(Tail(tokens))

\* UnifiedMarket.normalized_title
normalized_title(m) ==
    LET lowered == [k \in 1..Len(m.title) |-> Lower(m.title[k])]
    IN  Join(Split(PunctuationToSpace(lowered)))

----------------------------------------------------------------------------
(* matching/fuzzy_matcher.py: FuzzyMatcher                                 *)
(* rapidfuzz's scorer is modelled by what it computes: the tokens sorted,  *)
(* joined by one space, and the normalized Indel similarity of the two     *)
(* strings, 100 * 2 * LCS / (len1 + len2), kept as an exact fraction.      *)

FuzzyMatcher(t) == [threshold |-> t]

MarketPair(kalshi_market, poly_market, match_score) ==
    [kalshi_market |-> kalshi_market,
     poly_market |-> poly_market,
     match_score |-> match_score]

\* Code point order of the characters of a normalized title.
Ord(c) ==
    CASE c = " " -> 32
      [] c = "a" -> 97
      [] c = "b" -> 98
      [] c = "c" -> 99
      [] c = "d" -> 100

\* Python's str <: the first differing character decides, a proper prefix is
\* smaller.
RECURSIVE StrLess(_, _)
StrLess(a, b) ==
    IF b = <<>> THEN FALSE
    ELSE IF a = <<>> THEN TRUE
    ELSE IF Head(a) = Head(b) THEN StrLess(Tail(a), Tail(b))
    ELSE Ord(Head(a)) < Ord(Head(b))

RECURSIVE InsertToken(_, _)
InsertToken(tok, sorted) ==
    IF sorted = <<>> THEN <<tok>>
    ELSE IF StrLess(tok, Head(sorted)) THEN <<tok>> \o sorted
    ELSE <<Head(sorted)>> \o InsertToken(tok, Tail(sorted))

\* sorted(tokens)
RECURSIVE SortTokens(_)
SortTokens(tokens) ==
    IF tokens = <<>> THEN <<>>
    ELSE InsertToken(Head(tokens), SortTokens(Tail(tokens)))

\* Length of a longest common subsequence.
LCS(a, b) ==
    LET lcs[i \in 0..Len(a), j \in 0..Len(b)] ==
            IF i = 0 \/ j = 0 THEN 0
            ELSE IF a[i] = b[j] THEN lcs[i - 1, j - 1] + 1
            ELSE Max(lcs[i - 1, j], lcs[i, j - 1])
    IN  lcs[Len(a), Len(b)]

RECURSIVE GCD(_, _)
GCD(a, b) == IF b = 0 THEN a ELSE GCD(b, a % b)

\* A score as a fraction in lowest terms.
Score(num, den) == [num |-> num \div GCD(num, den), den |-> den \div GCD(num, den)]

ScoreGeq(x, y) == x.num * y.den >= y.num * x.den

\* fuzz.ratio
ratio(s1, s2) ==
    IF Len(s1) + Len(s2) = 0 THEN Score(100, 1)
    ELSE Score(200 * LCS(s1, s2), Len(s1) + Len(s2))

token_sort_ratio_Unsorted(s1, s2) == ratio(s1, s2)

\* fuzz.token_sort_ratio
token_sort_ratio(s1, s2) ==
    ratio(Join(SortTokens(Split(s1))), Join(SortTokens(Split(s2))))

\* cdist(queries, choices, scorer=fuzz.token_sort_ratio)
cdist(queries, choices) ==
    [i \in 1..Len(queries) |->
        [j \in 1..Len(choices) |-> token_sort_ratio(queries[i], choices[j])]]

ArgMax_LastMaximum(row) ==
    CHOOSE j \in 1..Len(row) :
        /\ \A k \in 1..Len(row) : ScoreGeq(row[j], row[k])
        /\ \A k \in (j + 1)..Len(row) : ~ScoreGeq(row[k], row[j])

\* np.argmax over one row: the first index holding the maximum.
ArgMax(row) ==
    CHOOSE j \in 1..Len(row) :
        /\ \A k \in 1..Len(row) : ScoreGeq(row[j], row[k])
        /\ \A k \in 1..(j - 1) : ~ScoreGeq(row[k], row[j])

SortedIndices_Ascending(best_scores) ==
    {order \in [1..Len(best_scores) -> 1..Len(best_scores)] :
        /\ \A a, b \in 1..Len(order) : a # b => order[a] # order[b]
        /\ \A a \in 1..Len(order) - 1 :
               ScoreGeq(best_scores[order[a + 1]], best_scores[order[a]])}

\* The orders np.argsort(best_scores)[::-1] can give: every permutation of the
\* rows with non-increasing best score (the order of equal scores is the
\* sort's own).
SortedIndices(best_scores) ==
    {order \in [1..Len(best_scores) -> 1..Len(best_scores)] :
        /\ \A a, b \in 1..Len(order) : a # b => order[a] # order[b]
        /\ \A a \in 1..Len(order) - 1 :
               ScoreGeq(best_scores[order[a]], best_scores[order[a + 1]])}

Accepts_NoClaimCheck(self, score, poly_idx, matched_poly_indices) ==
    ScoreGeq(score, Score(self.threshold, 1))

\* The test a candidate passes to be committed.
Accepts(self, score, poly_idx, matched_poly_indices) ==
    /\ ScoreGeq(score, Score(self.threshold, 1))
    /\ poly_idx \notin matched_poly_indices

\* The commit loop over sorted_indices[k..]: the list it appends to matches,
\* given the Polymarket indices already matched.
\* f holds the locals the loop reads: the two market lists, best_poly_indices,
\* best_scores and sorted_indices.
RECURSIVE CommitLoop(_, _, _, _)
CommitLoop(self, f, k, matched_poly_indices) ==
    IF k > Len(f.sorted_indices) THEN <<>>
    ELSE LET kalshi_idx == f.sorted_indices[k]
             poly_idx == f.best_poly_indices[kalshi_idx]
             score == f.best_scores[kalshi_idx]
         IN  IF Accepts(self, score, poly_idx, matched_poly_indices)
             THEN <<MarketPair(f.kalshi_markets[kalshi_idx],
                               f.poly_markets[poly_idx], score)>>
                      \o CommitLoop(self, f, k + 1, matched_poly_indices \cup {poly_idx})
             ELSE CommitLoop(self, f, k + 1, matched_poly_indices)

\* The similarity matrix of one call.
Scores(kalshi, poly) ==
    cdist([i \in 1..Len(kalshi) |-> normalized_title(kalshi[i])],
          [j \in 1..Len(poly) |-> normalized_title(poly[j])])

\* np.argmax(scores, axis=1)
BestPolyIndices(matrix) == [i \in 1..Len(matrix) |-> ArgMax(matrix[i])]

\* np.max(scores, axis=1)
BestScores(matrix) == [i \in 1..Len(matrix) |-> matrix[i][ArgMax(matrix[i])]]

\* find_matches past its empty-list guard. np.argmax raises ValueError on
\* rows of length zero; with no rows there is nothing to take a maximum of.
\* The outcomes are one per order the sort may give.
MatchOutcomes(self, kalshi, poly) ==
    IF kalshi # <<>> /\ poly = <<>>
    THEN {[raised |-> "ValueError", scores |-> Scores(kalshi, poly), matches |-> <<>>,
           sorted_indices |-> <<>>]}
    ELSE LET matrix == Scores(kalshi, poly)
             best_poly_indices == BestPolyIndices(matrix)
             best_scores == BestScores(matrix)
         IN  {[raised |-> "none",
               scores |-> matrix,
               sorted_indices |-> sorted_indices,
               matches |-> CommitLoop(self,
                                      [kalshi_markets |-> kalshi,
                                       poly_markets |-> poly,
                                       best_poly_indices |-> best_poly_indices,
                                       best_scores |-> best_scores,
                                       sorted_indices |-> sorted_indices],
                                      1, {})] :
                  sorted_indices \in SortedIndices(best_scores)}

Repeatable_FreshOrder(outcomes, earlier) == outcomes

\* np.argsort has no random step: in one build it is a function of the array
\* it is given. The outcomes of a call that follows earlier calls on the same
\* arguments are those whose sort gave the order the earlier calls' sort gave.
Repeatable(outcomes, earlier) ==
    IF earlier = <<>> THEN outcomes
    ELSE {out \in outcomes : out.sorted_indices = earlier[1].sorted_indices}

\* FuzzyMatcher.find_matches: the outcomes of one call, each with the order
\* its sort gave.
find_matches(self, kalshi, poly) ==
    IF kalshi = <<>> \/ poly = <<>>
    THEN {[raised |-> "none", scores |-> <<>>, matches |-> <<>>, sorted_indices |-> <<>>]}
    ELSE MatchOutcomes(self, kalshi, poly)

----------------------------------------------------------------------------
(* arbitrage/calculator.py: ArbitrageCalculator                            *)

\* min_profit_threshold of the calculator, in cents (0.02).
MinProfitThreshold == 2

ArbitrageCalculator == [min_profit_threshold |-> MinProfitThreshold]

WalkFrame_NoCopy(yes, no, yes_platform, no_platform) ==
    [levels |-> <<>>,
     yes_remaining |-> yes,
     no_remaining |-> no,
     aliases |-> {"yes_asks", "no_asks"},
     yes_idx |-> 1,
     no_idx |-> 1,
     yes_platform |-> yes_platform,
     no_platform |-> no_platform,
     pc |-> "loop"]

\* The locals of _walk_orderbook before the first loop test. The two
\* remaining lists are built new from the prices and sizes of the arguments:
\* aliases names the argument lists that a local list is the same object as,
\* none here.
WalkFrame(yes, no, yes_platform, no_platform) ==
    [levels |-> <<>>,
     yes_remaining |-> [k \in 1..Len(yes) |-> OrderbookLevel(yes[k].price, yes[k].size)],
     no_remaining |-> [k \in 1..Len(no) |-> OrderbookLevel(no[k].price, no[k].size)],
     aliases |-> {},
     yes_idx |-> 1,
     no_idx |-> 1,
     yes_platform |-> yes_platform,
     no_platform |-> no_platform,
     pc |-> "loop"]

\* The while condition.
WalkLoopCond(w) ==
    w.yes_idx <= Len(w.yes_remaining) /\ w.no_idx <= Len(w.no_remaining)

\* 1.0 - (yes_price + no_price) at the two current heads.
HeadProfit(w) ==
    100 - (w.yes_remaining[w.yes_idx].price + w.no_remaining[w.no_idx].price)

WalkStops_Inclusive(self, w) == HeadProfit(w) <= self.min_profit_threshold

WalkStops_SignSlip(self, w) == (0 - HeadProfit(w)) < self.min_profit_threshold

\* The stop test of the loop body.
WalkStops(self, w) == HeadProfit(w) < self.min_profit_threshold

WalkQty_Max(w) ==
    Max(w.yes_remaining[w.yes_idx].size, w.no_remaining[w.no_idx].size)

\* qty = min(yes_qty, no_qty) at the two current heads.
WalkQty(w) ==
    Min(w.yes_remaining[w.yes_idx].size, w.no_remaining[w.no_idx].size)

EmitLevel_DollarsFromCost(w, qty) ==
    LET yes_price == w.yes_remaining[w.yes_idx].price
        no_price == w.no_remaining[w.no_idx].price
        total_cost == yes_price + no_price
        gross_profit_pct == 100 - total_cost
    IN  ArbitrageLevel(w.yes_platform, yes_price, w.no_platform, no_price, qty,
                       total_cost, gross_profit_pct, qty * total_cost)

\* The ArbitrageLevel a pass appends for the quantity qty.
EmitLevel(w, qty) ==
    LET yes_price == w.yes_remaining[w.yes_idx].price
        no_price == w.no_remaining[w.no_idx].price
        total_cost == yes_price + no_price
        gross_profit_pct == 100 - total_cost
        max_profit_dollars == qty * gross_profit_pct
    IN  ArbitrageLevel(w.yes_platform, yes_price, w.no_platform, no_price, qty,
                       total_cost, gross_profit_pct, max_profit_dollars)

Deduct_Nothing(entry, qty) == entry

\* The entry that replaces a head: (price, size - qty).
Deduct(entry, qty) == OrderbookLevel(entry.price, entry.size - qty)

Exhausted_BelowZero(entry) == entry.size < 0

\* The test that moves a pointer to the next level.
Exhausted(entry) == entry.size <= 0

\* One pass of the loop body that does not break.
WalkBody(self, w) ==
    LET qty == WalkQty(w)
        yes_left == IF qty > 0
                    THEN [w.yes_remaining EXCEPT ![w.yes_idx] = Deduct(@, qty)]
                    ELSE w.yes_remaining
        no_left == IF qty > 0
                   THEN [w.no_remaining EXCEPT ![w.no_idx] = Deduct(@, qty)]
                   ELSE w.no_remaining
    IN  [w EXCEPT
            !.levels = IF qty > 0 THEN Append(@, EmitLevel(w, qty)) ELSE @,
            !.yes_remaining = yes_left,
            !.no_remaining = no_left,
            !.yes_idx = IF Exhausted(yes_left[w.yes_idx]) THEN @ + 1 ELSE @,
            !.no_idx = IF Exhausted(no_left[w.no_idx]) THEN @ + 1 ELSE @]

\* One step of the call: the loop test, then the body or the exit.
WalkNext(self, w) ==
    IF ~WalkLoopCond(w) THEN [w EXCEPT !.pc = "exhausted"]
    ELSE IF WalkStops(self, w) THEN [w EXCEPT !.pc = "break"]
    ELSE WalkBody(self, w)

RECURSIVE WalkRun(_, _)
WalkRun(self, w) == IF w.pc # "loop" THEN w ELSE WalkRun(self, WalkNext(self, w))

\* An argument list as its caller sees it once the call has reached frame w:
\* the assignments to a remaining list show in an argument list only if the
\* two are the same object.
CallerList(ladder, w, name) ==
    IF name \notin w.aliases THEN ladder
    ELSE IF name = "yes_asks" THEN w.yes_remaining
    ELSE w.no_remaining

\* The value _walk_orderbook returns.
_walk_orderbook(self, yes, no, yes_platform, no_platform) ==
    WalkRun(self, WalkFrame(yes, no, yes_platform, no_platform)).levels

\* Where x goes in a list already in descending key order, behind nothing it
\* preceded: before the first element whose key is not greater.
RECURSIVE InsertDesc(_, _)
InsertDesc(x, sorted) ==
    IF sorted = <<>> THEN <<x>>
    ELSE IF Head(sorted).key > x.key
         THEN <<Head(sorted)>> \o InsertDesc(x, Tail(sorted))
         ELSE <<x>> \o sorted

\* A list of [key, val] in descending key order, equal keys in their
\* original order.
RECURSIVE SortKeyedDesc(_)
SortKeyedDesc(s) ==
    IF s = <<>> THEN <<>> ELSE InsertDesc(Head(s), SortKeyedDesc(Tail(s)))

\* list.sort(key=..., reverse=True) and sorted(..., reverse=True), given the
\* list with each element's key: a stable sort, descending by key.
SortDesc(keyed) ==
    LET sorted == SortKeyedDesc(keyed)
    IN  [k \in 1..Len(keyed) |-> sorted[k].val]

\* key=lambda x: x.profit_percentage
ByProfit(levels) ==
    [k \in 1..Len(levels) |-> [key |-> levels[k].profit_percentage, val |-> levels[k]]]

MergeLevels_Unsorted(levels_1, levels_2) == levels_1 \o levels_2

\* all_levels of calculate_opportunity: the two walks' levels, sorted.
MergeLevels(levels_1, levels_2) == SortDesc(ByProfit(levels_1 \o levels_2))

\* Strategy 1: YES on Kalshi + NO on Polymarket.
FirstStrategy(self, kbook, pbook) ==
    _walk_orderbook(self, kbook.yes_asks, pbook.no_asks, KALSHI, POLYMARKET)

SecondStrategy_KalshiYes(self, kbook, pbook) ==
    _walk_orderbook(self, kbook.yes_asks, kbook.no_asks, POLYMARKET, KALSHI)

\* Strategy 2: YES on Polymarket + NO on Kalshi.
SecondStrategy(self, kbook, pbook) ==
    _walk_orderbook(self, pbook.yes_asks, kbook.no_asks, POLYMARKET, KALSHI)

\* ArbitrageCalculator.calculate_opportunity(pair, kalshi_orderbook,
\* poly_orderbook), with the arguments named p, kbook and pbook.
calculate_opportunity(self, p, kbook, pbook) ==
    LET levels_1 == FirstStrategy(self, kbook, pbook)
        levels_2 == SecondStrategy(self, kbook, pbook)
        all_levels == MergeLevels(levels_1, levels_2)
    IN  IF all_levels = <<>> THEN None
        ELSE ArbitrageOpportunity(p.kalshi_market, p.poly_market,
                                  p.match_score, all_levels)

\* The two books as the caller of calculate_opportunity sees them after the
\* call: each ask ladder was the argument of one of the two walks.
BooksAfter(self, kbook, pbook) ==
    LET walk_1 == WalkRun(self, WalkFrame(kbook.yes_asks, pbook.no_asks,
                                          KALSHI, POLYMARKET))
        walk_2 == WalkRun(self, WalkFrame(pbook.yes_asks, kbook.no_asks,
                                          POLYMARKET, KALSHI))
    IN  [kalshi |-> [kbook EXCEPT !.yes_asks = CallerList(@, walk_1, "yes_asks"),
                                  !.no_asks = CallerList(@, walk_2, "no_asks")],
         poly |-> [pbook EXCEPT !.no_asks = CallerList(@, walk_1, "no_asks"),
                                !.yes_asks = CallerList(@, walk_2, "yes_asks")]]

\* dict.get(key): the value, or None for a key the dict does not hold.
DictGet(dict, key) == IF key \in DOMAIN dict THEN dict[key] ELSE None

CollectFrom_StopAtMissing(self, ps, kbooks, pbooks, k, rest) ==
    LET kalshi_book == DictGet(kbooks, ps[k].kalshi_market.market_id)
        poly_book == DictGet(pbooks, ps[k].poly_market.market_id)
    IN  IF kalshi_book # None /\ poly_book # None
        THEN LET o == calculate_opportunity(self, ps[k], kalshi_book, poly_book)
             IN  IF o # None THEN <<o>> \o rest ELSE rest
        ELSE <<>>

\* One pass of the loop of find_all_opportunities, for pairs[k]: the list the
\* loop appends from here on, rest being what the later passes append.
CollectFrom(self, ps, kbooks, pbooks, k, rest) ==
    LET kalshi_book == DictGet(kbooks, ps[k].kalshi_market.market_id)
        poly_book == DictGet(pbooks, ps[k].poly_market.market_id)
    IN  IF kalshi_book # None /\ poly_book # None
        THEN LET o == calculate_opportunity(self, ps[k], kalshi_book, poly_book)
             IN  IF o # None THEN <<o>> \o rest ELSE rest
        ELSE rest

\* The loop of find_all_opportunities over pairs[k..].
RECURSIVE CollectOpportunities(_, _, _, _, _)
CollectOpportunities(self, ps, kbooks, pbooks, k) ==
    IF k > Len(ps) THEN <<>>
    ELSE CollectFrom(self, ps, kbooks, pbooks, k,
                     CollectOpportunities(self, ps, kbooks, pbooks, k + 1))

Reverse(s) == [k \in 1..Len(s) |-> s[Len(s) + 1 - k]]

\* key=lambda x: x.best_profit_percentage
ByBestProfit(opps) ==
    [k \in 1..Len(opps) |-> [key |-> best_profit_percentage(opps[k]), val |-> opps[k]]]

SortOpportunities_ReversedTies(opps) == SortDesc(ByBestProfit(Reverse(opps)))

\* sorted(opportunities, key=best_profit_percentage, reverse=True)
SortOpportunities(opps) == SortDesc(ByBestProfit(opps))

\* The pairs of ps for which find_all_opportunities calls
\* calculate_opportunity.
Evaluated(ps, kbooks, pbooks) ==
    {k \in 1..Len(ps) :
        /\ ps[k].kalshi_market.market_id \in DOMAIN kbooks
        /\ ps[k].poly_market.market_id \in DOMAIN pbooks}

\* The two dicts as the caller of find_all_opportunities sees them after the
\* call: the books of the evaluated pairs are those calculate_opportunity
\* leaves, a market being in one pair at most.
BookMapsAfter(self, ps, kbooks, pbooks) ==
    LET after(k) == BooksAfter(self, kbooks[ps[k].kalshi_market.market_id],
                               pbooks[ps[k].poly_market.market_id])
        evaluated == Evaluated(ps, kbooks, pbooks)
    IN  [kalshi |->
             [id \in DOMAIN kbooks |->
                 IF \E k \in evaluated : ps[k].kalshi_market.market_id = id
                 THEN after(CHOOSE k \in evaluated :
                                ps[k].kalshi_market.market_id = id).kalshi
                 ELSE kbooks[id]],
         poly |->
             [id \in DOMAIN pbooks |->
                 IF \E k \in evaluated : ps[k].poly_market.market_id = id
                 THEN after(CHOOSE k \in evaluated :
                                ps[k].poly_market.market_id = id).poly
                 ELSE pbooks[id]]]

\* ArbitrageCalculator.find_all_opportunities(pairs, kalshi_orderbooks,
\* poly_orderbooks), with the arguments named ps, kbooks and pbooks.
find_all_opportunities(self, ps, kbooks, pbooks) ==
    SortOpportunities(CollectOpportunities(self, ps, kbooks, pbooks, 1))

----------------------------------------------------------------------------
(* Python float: IEEE 754 binary64, round to nearest, ties to even         *)
(* A natural number of any size is a sequence of limbs, least significant  *)
(* first and without leading zero limbs, so that no intermediate value     *)
(* leaves the range of TLC's integers. A finite float is                   *)
(* [neg, mant, exp] of value (-1)^neg * mant * 2^exp, with mant a natural  *)
(* number of exactly Precision bits, or the empty sequence for zero. The   *)
(* values of the fee formula stay far inside the normal range: there are   *)
(* no subnormals, infinities or NaNs to model.                             *)

\* Bits of the significand of a binary64.
Precision == 53

LimbBits == 2 * 7

Limb == 2 ^ LimbBits

RECURSIVE Trim(_)
Trim(n) ==
    IF n # <<>> /\ n[Len(n)] = 0 THEN Trim(SubSeq(n, 1, Len(n) - 1)) ELSE n

\* Digits that may exceed a limb, brought back to limbs.
RECURSIVE Carry(_, _)
Carry(digits, c) ==
    IF digits = <<>>
    THEN IF c = 0 THEN <<>> ELSE <<c % Limb>> \o Carry(<<>>, c \div Limb)
    ELSE LET v == Head(digits) + c
         IN  <<v % Limb>> \o Carry(Tail(digits), v \div Limb)

\* The natural number x as limbs.
NatOf(x) == Trim(Carry(<<x>>, 0))

\* The limbs n as an integer, for n small enough.
RECURSIVE IntOf(_)
IntOf(n) == IF n = <<>> THEN 0 ELSE Head(n) + Limb * IntOf(Tail(n))

RECURSIVE IntBits(_)
IntBits(x) == IF x = 0 THEN 0 ELSE 1 + IntBits(x \div 2)

\* Number of bits of n: 0 for zero.
BitLen(n) ==
    IF n = <<>> THEN 0 ELSE LimbBits * (Len(n) - 1) + IntBits(n[Len(n)])

LimbAt(n, k) == IF k \in 1..Len(n) THEN n[k] ELSE 0

AddNat(a, b) ==
    Trim(Carry([k \in 1..Max(Len(a), Len(b)) |-> LimbAt(a, k) + LimbAt(b, k)], 0))

\* a - b - c limb by limb, for a >= b + c.
RECURSIVE Borrow(_, _, _)
Borrow(a, b, c) ==
    IF a = <<>> THEN <<>>
    ELSE LET v == Head(a) - LimbAt(b, 1) - c
             rest == IF b = <<>> THEN <<>> ELSE Tail(b)
         IN  IF v < 0 THEN <<v + Limb>> \o Borrow(Tail(a), rest, 1)
             ELSE <<v>> \o Borrow(Tail(a), rest, 0)

SubNat(a, b) == Trim(Borrow(a, b, 0))

\* a >= b: the most significant differing limb decides.
RECURSIVE GeqNat(_, _)
GeqNat(a, b) ==
    IF Len(a) # Len(b) THEN Len(a) > Len(b)
    ELSE IF a = <<>> THEN TRUE
    ELSE IF a[Len(a)] # b[Len(b)] THEN a[Len(a)] > b[Len(b)]
    ELSE GeqNat(SubSeq(a, 1, Len(a) - 1), SubSeq(b, 1, Len(b) - 1))

\* The sum of the limb products that land on limb k of a * b.
ColumnSum(a, b, k) ==
    SumSeq([i \in 1..Len(a) |-> a[i] * LimbAt(b, k + 1 - i)])

MulNat(a, b) ==
    IF a = <<>> \/ b = <<>> THEN <<>>
    ELSE Trim(Carry([k \in 1..(Len(a) + Len(b) - 1) |-> ColumnSum(a, b, k)], 0))

\* n * 2^s
ShiftLeft(n, s) ==
    IF n = <<>> THEN <<>>
    ELSE [k \in 1..(s \div LimbBits) |-> 0]
             \o Trim(Carry([k \in 1..Len(n) |-> n[k] * 2 ^ (s % LimbBits)], 0))

\* n \div 2^s
ShiftRight(n, s) ==
    LET whole == s \div LimbBits
        bits == s % LimbBits
        kept == IF whole >= Len(n) THEN <<>> ELSE SubSeq(n, whole + 1, Len(n))
    IN  Trim([k \in 1..Len(kept) |->
                 (kept[k] \div 2 ^ bits)
                     + (LimbAt(kept, k + 1) % 2 ^ bits) * 2 ^ (LimbBits - bits)])

\* Bit i of n, bit 0 being the least significant.
TestBit(n, i) == (LimbAt(n, i \div LimbBits + 1) \div 2 ^ (i % LimbBits)) % 2 = 1

\* n % 2^t # 0
LowNonZero(n, t) ==
    \E k \in 1..Len(n) :
        \/ k <= t \div LimbBits /\ n[k] # 0
        \/ k = t \div LimbBits + 1 /\ n[k] % 2 ^ (t % LimbBits) # 0

\* The quotient and remainder of n by a divisor d below a limb, from the
\* most significant limb down, r being the remainder carried in.
RECURSIVE DivSmall(_, _, _)
DivSmall(n, d, r) ==
    IF n = <<>> THEN [quot |-> <<>>, rem |-> r]
    ELSE LET v == r * Limb + n[Len(n)]
             lower == DivSmall(SubSeq(n, 1, Len(n) - 1), d, v % d)
         IN  [quot |-> Append(lower.quot, v \div d), rem |-> lower.rem]

Float(neg, mant, exp) == [neg |-> neg, mant |-> mant, exp |-> exp]

\* The float nearest to (-1)^neg * n * 2^e, a tie going to the even
\* significand.
Round(neg, n, e) ==
    LET len == BitLen(n)
        s == len - Precision
    IN  IF len = 0 THEN Float(neg, <<>>, 0)
        ELSE IF s <= 0 THEN Float(neg, ShiftLeft(n, 0 - s), e + s)
        ELSE LET q == ShiftRight(n, s)
                 up == TestBit(n, s - 1) /\ (LowNonZero(n, s - 1) \/ TestBit(n, s))
                 r == IF up THEN AddNat(q, <<1>>) ELSE q
             IN  IF BitLen(r) > Precision
                 THEN Float(neg, ShiftRight(r, 1), e + s + 1)
                 ELSE Float(neg, r, e + s)

\* float(i) for an int i: exact.
FloatOfInt(i) == Round(i < 0, NatOf(IF i < 0 THEN 0 - i ELSE i), 0)

\* The float nearest to n / d, for naturals n and d > 0 below a limb: what
\* the literal n/d written in decimal and the division n / float(d) give.
\* The quotient of n * 2^70 by d keeps more than Precision bits; a bit is
\* appended that is 1 iff the remainder is not zero, so that Round sees
\* on which side of a tie the exact value lies.
FloatOfRatio(n, d) ==
    LET division == DivSmall(ShiftLeft(NatOf(n), 5 * LimbBits), d, 0)
        doubled == ShiftLeft(Trim(division.quot), 1)
        sticky == IF division.rem = 0 THEN 0 ELSE 1
    IN  IF doubled = <<>> THEN Float(FALSE, <<>>, 0)
        ELSE Round(FALSE, [doubled EXCEPT ![1] = @ + sticky], 0 - (5 * LimbBits + 1))

\* x * y
FloatMul(x, y) == Round(x.neg # y.neg, MulNat(x.mant, y.mant), x.exp + y.exp)

\* x - y: the two significands on the smaller exponent, then the exact
\* difference rounded. An exact zero is +0.0.
FloatSub(x, y) ==
    LET e == Min(x.exp, y.exp)
        a == ShiftLeft(x.mant, x.exp - e)
        b == ShiftLeft(y.mant, y.exp - e)
    IN  IF x.neg # y.neg THEN Round(x.neg, AddNat(a, b), e)
        ELSE IF a = b THEN Float(FALSE, <<>>, 0)
        ELSE IF GeqNat(a, b) THEN Round(x.neg, SubNat(a, b), e)
        ELSE Round(~x.neg, SubNat(b, a), e)

\* math.ceil(x), an int.
FloatCeil(x) ==
    IF x.mant = <<>> THEN 0
    ELSE IF x.exp >= 0
         THEN (IF x.neg THEN 0 - 1 ELSE 1) * IntOf(ShiftLeft(x.mant, x.exp))
         ELSE LET whole == IntOf(ShiftRight(x.mant, 0 - x.exp))
              IN  IF x.neg THEN 0 - whole
                  ELSE IF LowNonZero(x.mant, 0 - x.exp) THEN whole + 1
                  ELSE whole

----------------------------------------------------------------------------
(* arbitrage/fee_calculator.py: FeeCalculator                              *)
(* A price argument is in cents and stands for the float nearest to        *)
(* price / 100, the value the venue clients and a decimal literal give.    *)
(* The fee formula is evaluated in float arithmetic, product by product    *)
(* from the left as Python does, because math.ceil turns an error of one   *)
(* unit in the last place into a whole cent. Fees are returned in cents:   *)
(* the int math.ceil gives, before the division by 100.0.                  *)

\* KALSHI_TAKER_COEFFICIENT = 0.07
KALSHI_TAKER_COEFFICIENT == FloatOfRatio(7, 100)

\* POLY_TAKER_RATE (0.0).
POLY_TAKER_RATE == 0

\* FeeCalculator.kalshi_taker_fee
kalshi_taker_fee(contracts, price) ==
    LET p == FloatOfRatio(price, 100)
        coefficient_contracts == FloatMul(KALSHI_TAKER_COEFFICIENT, FloatOfInt(contracts))
        times_price == FloatMul(coefficient_contracts, p)
        times_rest == FloatMul(times_price, FloatSub(FloatOfInt(1), p))
    IN  FloatCeil(FloatMul(times_rest, FloatOfInt(100)))

\* FeeCalculator.polymarket_taker_fee
polymarket_taker_fee(contracts, price) == contracts * price * POLY_TAKER_RATE

\* FeeCalculator.estimate_total_fees: (kalshi_fee, poly_fee)
estimate_total_fees(buy_yes_platform, buy_yes_price, buy_no_platform, buy_no_price, contracts) ==
    LET yes_kalshi == IF buy_yes_platform = KALSHI
                      THEN kalshi_taker_fee(contracts, buy_yes_price) ELSE 0
        yes_poly == IF buy_yes_platform = KALSHI
                    THEN 0 ELSE polymarket_taker_fee(contracts, buy_yes_price)
        no_kalshi == IF buy_no_platform = KALSHI
                     THEN kalshi_taker_fee(contracts, buy_no_price) ELSE 0
        no_poly == IF buy_no_platform = KALSHI
                   THEN 0 ELSE polymarket_taker_fee(contracts, buy_no_price)
    IN  <<yes_kalshi + no_kalshi, yes_poly + no_poly>>

----------------------------------------------------------------------------
(* clients/kalshi_client.py, clients/polymarket_client.py: get_orderbook   *)
(* What follows the HTTP exchange: the parsing of the venue's response and *)
(* the sorting of the four sides. The prices of these books are floats,    *)
(* as the clients compute them: cents / 100.0 and 1.0 - price for Kalshi,  *)
(* float(text) for Polymarket; sizes are kept as the venue gives them.     *)

\* x < y
FloatLess(x, y) ==
    LET difference == FloatSub(x, y)
    IN  difference.neg /\ difference.mant # <<>>

ComesAfter_IgnoringReverse(x, y, reverse) == FloatLess(y.price, x.price)

\* In a list sorted by price, x belongs behind y: y's price is smaller, or
\* greater when the sort is reversed.
ComesAfter(x, y, reverse) ==
    IF reverse THEN FloatLess(x.price, y.price) ELSE FloatLess(y.price, x.price)

\* x put into a list already sorted, before every element it does not
\* belong behind.
RECURSIVE InsertByPrice(_, _, _)
InsertByPrice(x, sorted, reverse) ==
    IF sorted = <<>> THEN <<x>>
    ELSE IF ComesAfter(x, Head(sorted), reverse)
         THEN <<Head(sorted)>> \o InsertByPrice(x, Tail(sorted), reverse)
         ELSE <<x>> \o sorted

\* list.sort(key=lambda x: x.price, reverse=reverse): stable, so levels of
\* equal price keep their order.
RECURSIVE SortByPrice(_, _)
SortByPrice(levels, reverse) ==
    IF levels = <<>> THEN <<>>
    ELSE InsertByPrice(Head(levels), SortByPrice(Tail(levels), reverse), reverse)

\* The elements of a list that pass a test, in order: keep[k] tells whether
\* the k-th does.
RECURSIVE Kept(_, _)
Kept(list, keep) ==
    IF list = <<>> THEN <<>>
    ELSE (IF Head(keep) THEN <<Head(list)>> ELSE <<>>) \o Kept(Tail(list), Tail(keep))

\* The bids KalshiClient.get_orderbook reads from one side of the response:
\* an entry is a list [cents, size, ...]; shorter entries are passed over.
KalshiBids(entries) ==
    LET usable == Kept(entries, [k \in 1..Len(entries) |-> Len(entries[k]) >= 2])
    IN  [k \in 1..Len(usable) |->
            OrderbookLevel(FloatOfRatio(usable[k][1], 100), usable[k][2])]

\* The asks derived from the bids of the opposite side.
DerivedAsks(bids) ==
    [k \in 1..Len(bids) |->
        OrderbookLevel(FloatSub(FloatOfInt(1), bids[k].price), bids[k].size)]

\* KalshiClient.get_orderbook, from data["orderbook"] on.
kalshi_get_orderbook(ticker, orderbook_data) ==
    LET yes_bids == KalshiBids(orderbook_data.yes)
        no_bids == KalshiBids(orderbook_data.no)
        yes_asks_derived == DerivedAsks(no_bids)
        no_asks_derived == DerivedAsks(yes_bids)
    IN  Orderbook(ticker,
                  SortByPrice(yes_bids, TRUE), SortByPrice(yes_asks_derived, FALSE),
                  SortByPrice(no_bids, TRUE), SortByPrice(no_asks_derived, FALSE))

\* dict.get(key, default)
DictGetOr(dict, key, default) == IF key \in DOMAIN dict THEN dict[key] ELSE default

\* The levels PolymarketClient.get_orderbook reads from one list of a token's
\* book: an entry gives price and size as text; an entry float() rejects is
\* passed over. A price text is modelled as <<cents>> when it is a number
\* and as <<>> when it is not.
PolymarketLevels(entries) ==
    LET usable == Kept(entries, [k \in 1..Len(entries) |-> entries[k].price # <<>>])
    IN  [k \in 1..Len(usable) |->
            OrderbookLevel(FloatOfRatio(usable[k].price[1], 100), usable[k].size)]

\* PolymarketClient.get_orderbook, from the two token books on; a book whose
\* request failed is the empty dict.
polymarket_get_orderbook(market_id, yes_book, no_book) ==
    Orderbook(market_id,
              SortByPrice(PolymarketLevels(DictGetOr(yes_book, "bids", <<>>)), TRUE),
              SortByPrice(PolymarketLevels(DictGetOr(yes_book, "asks", <<>>)), FALSE),
              SortByPrice(PolymarketLevels(DictGetOr(no_book, "bids", <<>>)), TRUE),
              SortByPrice(PolymarketLevels(DictGetOr(no_book, "asks", <<>>)), FALSE))

----------------------------------------------------------------------------
(* Scenario "match": one call of FuzzyMatcher.find_matches                 *)

\* The markets a venue lists: ids unique per venue, titles from Titles.
MarketLists(platform, prefix) ==
    {[k \in 1..Len(ts) |-> UnifiedMarket(platform, <<prefix, k>>, ts[k])] :
        ts \in SeqsUpTo(Titles, MaxMarkets)}

\* The variables of the operations a behaviour does not exercise.
MatchIdle ==
    /\ kalshi_markets = <<>>
    /\ poly_markets = <<>>
    /\ threshold = 0
    /\ scores = <<>>
    /\ matches = <<>>

WalkIdle ==
    /\ yes_asks = <<>>
    /\ no_asks = <<>>
    /\ walk = WalkFrame(<<>>, <<>>, KALSHI, POLYMARKET)
    /\ fills = <<>>
    /\ passes = 0

CalcIdle ==
    /\ pair = None
    /\ kalshi_orderbook = None
    /\ poly_orderbook = None
    /\ opp = None

AllIdle ==
    /\ pairs = <<>>
    /\ kalshi_orderbooks = <<>>
    /\ poly_orderbooks = <<>>
    /\ opportunities = <<>>

FeeIdle ==
    /\ fee_call = None
    /\ fee = None

RerunIdle == runs = <<>>

ClientIdle ==
    /\ response = None
    /\ book = None

BotIdle ==
    /\ bot = None
    /\ cycle = None

InitMatch ==
    /\ scenario = "match"
    /\ status = "called"
    /\ kalshi_markets \in MarketLists(KALSHI, "K")
    /\ poly_markets \in MarketLists(POLYMARKET, "P")
    /\ threshold \in Thresholds
    /\ scores = <<>>
    /\ matches = <<>>
    /\ WalkIdle /\ CalcIdle /\ AllIdle /\ FeeIdle /\ RerunIdle /\ ClientIdle /\ BotIdle

FindMatches ==
    /\ scenario = "match"
    /\ status = "called"
    /\ \E out \in find_matches(FuzzyMatcher(threshold), kalshi_markets, poly_markets) :
           /\ status' = IF out.raised = "none" THEN "returned" ELSE out.raised
           /\ scores' = out.scores
           /\ matches' = out.matches
    /\ UNCHANGED <<scenario, kalshi_markets, poly_markets, threshold>>
    /\ UNCHANGED <<walkVars, calcVars, allVars, feeVars, rerunVars, clientVars, botVars>>

NextMatch == FindMatches

SpecMatch == InitMatch /\ [][NextMatch]_vars

----------------------------------------------------------------------------
(* Scenario "walk": one call of _walk_orderbook, one loop pass per step    *)

InitWalk ==
    /\ scenario = "walk"
    /\ status = "called"
    /\ MatchIdle /\ CalcIdle /\ AllIdle /\ FeeIdle /\ RerunIdle /\ ClientIdle /\ BotIdle
    /\ yes_asks \in SeqsUpTo(WalkLevels, MaxDepth)
    /\ no_asks \in SeqsUpTo(WalkLevels, MaxDepth)
    /\ walk = WalkFrame(yes_asks, no_asks, KALSHI, POLYMARKET)
    /\ fills = <<>>
    /\ passes = 0

\* The fill a step adds to the history: the heads it traded at.
FillOf(w, w2) ==
    IF Len(w2.levels) > Len(w.levels)
    THEN <<[yes |-> w.yes_idx, no |-> w.no_idx,
            quantity |-> w2.levels[Len(w2.levels)].quantity]>>
    ELSE <<>>

WalkStep ==
    /\ scenario = "walk"
    /\ walk.pc = "loop"
    /\ WalkLoopCond(walk)
    /\ ~WalkStops(ArbitrageCalculator, walk)
    /\ walk' = WalkNext(ArbitrageCalculator, walk)
    /\ fills' = fills \o FillOf(walk, walk')
    /\ passes' = passes + 1
    /\ yes_asks' = CallerList(yes_asks, walk', "yes_asks")
    /\ no_asks' = CallerList(no_asks, walk', "no_asks")
    /\ UNCHANGED <<scenario, status>>
    /\ UNCHANGED <<matchVars, calcVars, allVars, feeVars, rerunVars, clientVars, botVars>>

WalkBreak ==
    /\ scenario = "walk"
    /\ walk.pc = "loop"
    /\ WalkLoopCond(walk)
    /\ WalkStops(ArbitrageCalculator, walk)
    /\ walk' = WalkNext(ArbitrageCalculator, walk)
    /\ status' = "returned"
    /\ passes' = passes + 1
    /\ yes_asks' = CallerList(yes_asks, walk', "yes_asks")
    /\ no_asks' = CallerList(no_asks, walk', "no_asks")
    /\ UNCHANGED <<scenario, fills>>
    /\ UNCHANGED <<matchVars, calcVars, allVars, feeVars, rerunVars, clientVars, botVars>>

WalkExhausted ==
    /\ scenario = "walk"
    /\ walk.pc = "loop"
    /\ ~WalkLoopCond(walk)
    /\ walk' = WalkNext(ArbitrageCalculator, walk)
    /\ status' = "returned"
    /\ yes_asks' = CallerList(yes_asks, walk', "yes_asks")
    /\ no_asks' = CallerList(no_asks, walk', "no_asks")
    /\ UNCHANGED <<scenario, fills, passes>>
    /\ UNCHANGED <<matchVars, calcVars, allVars, feeVars, rerunVars, clientVars, botVars>>

NextWalk == WalkStep \/ WalkBreak \/ WalkExhausted

SpecWalk == InitWalk /\ [][NextWalk]_vars

\* The levels of the shorter walks: a level with size,
\* one without, one of negative size, and one priced past the threshold.
SmallWalkLevels ==
    {[price |-> 45, size |-> 10], [price |-> 45, size |-> 0],
     [price |-> 45, size |-> -5], [price |-> 53, size |-> 20]}

InitWalkSmall ==
    /\ InitWalk
    /\ \A k \in 1..Len(yes_asks) : yes_asks[k] \in SmallWalkLevels
    /\ \A k \in 1..Len(no_asks) : no_asks[k] \in SmallWalkLevels

\* The call is sequential code that nothing suspends: while a step of it is
\* possible, a step is taken.
SpecWalkFair == InitWalkSmall /\ [][NextWalk]_vars /\ WF_vars(NextWalk)

----------------------------------------------------------------------------
(* Scenario "calc": one call of calculate_opportunity                      *)

\* Ascending by price, as the venue clients deliver ask ladders.
SortedAsc(ladder) ==
    \A k \in 1..Len(ladder) - 1 : ladder[k].price <= ladder[k + 1].price

\* The pairs the scenarios pass in: pair k joins the k-th market of each venue.
PairOf(k) ==
    MarketPair(UnifiedMarket(KALSHI, <<"K", k>>, <<"a", " ", "b">>),
               UnifiedMarket(POLYMARKET, <<"P", k>>, <<"b", " ", "a">>),
               Score(100, 1))

CalcLadders == {l \in SeqsUpTo(CalcLevels, MaxDepth) : SortedAsc(l)}

InitCalc ==
    /\ scenario = "calc"
    /\ status = "called"
    /\ pair = PairOf(1)
    /\ \E ya, na \in CalcLadders :
           kalshi_orderbook = Orderbook(<<"K", 1>>, <<>>, ya, <<>>, na)
    /\ \E ya, na \in CalcLadders :
           poly_orderbook = Orderbook(<<"P", 1>>, <<>>, ya, <<>>, na)
    /\ opp = None
    /\ MatchIdle /\ WalkIdle /\ AllIdle /\ FeeIdle /\ RerunIdle /\ ClientIdle /\ BotIdle

CalculateOpportunity ==
    /\ scenario = "calc"
    /\ status = "called"
    /\ opp' = calculate_opportunity(ArbitrageCalculator, pair, kalshi_orderbook,
                                    poly_orderbook)
    /\ status' = "returned"
    /\ LET after == BooksAfter(ArbitrageCalculator, kalshi_orderbook, poly_orderbook)
       IN  /\ kalshi_orderbook' = after.kalshi
           /\ poly_orderbook' = after.poly
    /\ UNCHANGED <<scenario, pair>>
    /\ UNCHANGED <<matchVars, walkVars, allVars, feeVars, rerunVars, clientVars, botVars>>

NextCalc == CalculateOpportunity

SpecCalc == InitCalc /\ [][NextCalc]_vars

----------------------------------------------------------------------------
(* Scenario "all": one call of find_all_opportunities                      *)

\* The dicts a cycle can hand over for the given market ids: each id either
\* absent or mapped to a book.
BookMaps(ids) ==
    UNION {[present -> BookAsks] : present \in SUBSET ids}

BooksOf(asks) ==
    [id \in DOMAIN asks |-> Orderbook(id, <<>>, asks[id].yes_asks, <<>>, asks[id].no_asks)]

InitAll ==
    /\ scenario = "all"
    /\ status = "called"
    /\ \E n \in 0..MaxPairs :
           /\ pairs = [k \in 1..n |-> PairOf(k)]
           /\ \E asks \in BookMaps({<<"K", k>> : k \in 1..n}) :
                  kalshi_orderbooks = BooksOf(asks)
           /\ \E asks \in BookMaps({<<"P", k>> : k \in 1..n}) :
                  poly_orderbooks = BooksOf(asks)
    /\ opportunities = <<>>
    /\ MatchIdle /\ WalkIdle /\ CalcIdle /\ FeeIdle /\ RerunIdle /\ ClientIdle /\ BotIdle

FindAllOpportunities ==
    /\ scenario = "all"
    /\ status = "called"
    /\ opportunities' = find_all_opportunities(ArbitrageCalculator, pairs,
                                               kalshi_orderbooks, poly_orderbooks)
    /\ status' = "returned"
    /\ LET after == BookMapsAfter(ArbitrageCalculator, pairs, kalshi_orderbooks,
                                  poly_orderbooks)
       IN  /\ kalshi_orderbooks' = after.kalshi
           /\ poly_orderbooks' = after.poly
    /\ UNCHANGED <<scenario, pairs>>
    /\ UNCHANGED <<matchVars, walkVars, calcVars, feeVars, rerunVars, clientVars, botVars>>

NextAll == FindAllOpportunities

SpecAll == InitAll /\ [][NextAll]_vars

\* The three operations of the calculator, the walk on the shorter ladders.
InitCalculator == InitWalkSmall \/ InitCalc \/ InitAll

NextCalculator == NextWalk \/ NextCalc \/ NextAll

SpecCalculator == InitCalculator /\ [][NextCalculator]_vars

\* Matching and aggregation together: the two entry points of the core that
\* take possibly missing data.
InitEngine == InitMatch \/ InitAll

NextEngine == NextMatch \/ NextAll

SpecEngine == InitEngine /\ [][NextEngine]_vars

----------------------------------------------------------------------------
(* Scenario "similarity": the similarity matrix of find_matches for a      *)
(* title, a reordering of its tokens, and a third title                    *)

\* Most tokens of the reordered title.
MaxTokens == 3

\* Raw tokens: a word, a capital, a word with punctuation behind it, and two
\* words joined by punctuation.
RawTokens == {<<"a">>, <<"B">>, <<"c", "?">>, <<"a", "-", "d">>}

TokenOrders(n) ==
    {perm \in [1..n -> 1..n] : \A a, b \in 1..n : a # b => perm[a] # perm[b]}

InitSimilarity ==
    /\ scenario = "similarity"
    /\ status = "called"
    /\ \E tokens \in SeqsUpTo(RawTokens, MaxTokens) :
       \E perm \in TokenOrders(Len(tokens)) :
       \E other \in Titles :
           LET reordered == [k \in 1..Len(tokens) |-> tokens[perm[k]]]
           IN  /\ kalshi_markets = <<UnifiedMarket(KALSHI, <<"K", 1>>, Join(tokens)),
                                     UnifiedMarket(KALSHI, <<"K", 2>>, Join(reordered))>>
               /\ poly_markets = <<UnifiedMarket(POLYMARKET, <<"P", 1>>, other),
                                   UnifiedMarket(POLYMARKET, <<"P", 2>>, Join(reordered))>>
    /\ threshold = 0
    /\ scores = <<>>
    /\ matches = <<>>
    /\ WalkIdle /\ CalcIdle /\ AllIdle /\ FeeIdle /\ RerunIdle /\ ClientIdle /\ BotIdle

\* The normalized titles and the cdist call of find_matches.
ComputeScores ==
    /\ scenario = "similarity"
    /\ status = "called"
    /\ scores' = Scores(kalshi_markets, poly_markets)
    /\ status' = "returned"
    /\ UNCHANGED <<scenario, kalshi_markets, poly_markets, threshold, matches>>
    /\ UNCHANGED <<walkVars, calcVars, allVars, feeVars, rerunVars, clientVars, botVars>>

NextSimilarity == ComputeScores

SpecSimilarity == InitSimilarity /\ [][NextSimilarity]_vars

----------------------------------------------------------------------------
(* Scenarios "rerun_match" and "rerun_walk": find_matches, or              *)
(* _walk_orderbook, called again and again on the same arguments           *)

\* Calls made on the same arguments.
MaxRuns == 2

\* The titles and price levels the repeated calls are given: titles that
\* tie on their best score, and levels of two prices with a zero size.
RerunTitles == {<<"b", " ", "a">>, <<"A", ",", " ", "b", "?">>, <<"a", " ", "c">>}

RerunLevels ==
    {[price |-> 45, size |-> 10], [price |-> 53, size |-> 20], [price |-> 45, size |-> 0]}

RerunMarketLists(platform, prefix) ==
    {ms \in MarketLists(platform, prefix) : \A k \in 1..Len(ms) : ms[k].title \in RerunTitles}

InitRerun ==
    /\ status = "called"
    /\ runs = <<>>
    /\ \/ /\ scenario = "rerun_match"
          /\ kalshi_markets \in RerunMarketLists(KALSHI, "K")
          /\ poly_markets \in RerunMarketLists(POLYMARKET, "P")
          /\ threshold \in Thresholds
          /\ scores = <<>>
          /\ matches = <<>>
          /\ WalkIdle
       \/ /\ scenario = "rerun_walk"
          /\ yes_asks \in SeqsUpTo(RerunLevels, MaxDepth)
          /\ no_asks \in SeqsUpTo(RerunLevels, MaxDepth)
          /\ walk = WalkFrame(yes_asks, no_asks, KALSHI, POLYMARKET)
          /\ fills = <<>>
          /\ passes = 0
          /\ MatchIdle
    /\ CalcIdle /\ AllIdle /\ FeeIdle /\ ClientIdle /\ BotIdle

FindMatchesAgain ==
    /\ scenario = "rerun_match"
    /\ Len(runs) < MaxRuns
    /\ \E out \in Repeatable(find_matches(FuzzyMatcher(threshold), kalshi_markets,
                                          poly_markets), runs) :
           /\ runs' = Append(runs, [returned |-> out.matches,
                                    sorted_indices |-> out.sorted_indices])
           /\ scores' = out.scores
           /\ matches' = out.matches
    /\ status' = "returned"
    /\ UNCHANGED <<scenario, kalshi_markets, poly_markets, threshold>>
    /\ UNCHANGED <<walkVars, calcVars, allVars, feeVars, clientVars, botVars>>

WalkOrderbookAgain ==
    /\ scenario = "rerun_walk"
    /\ Len(runs) < MaxRuns
    /\ walk' = WalkRun(ArbitrageCalculator,
                       WalkFrame(yes_asks, no_asks, KALSHI, POLYMARKET))
    /\ runs' = Append(runs, [returned |-> walk'.levels, sorted_indices |-> <<>>])
    /\ status' = "returned"
    /\ yes_asks' = CallerList(yes_asks, walk', "yes_asks")
    /\ no_asks' = CallerList(no_asks, walk', "no_asks")
    /\ UNCHANGED <<scenario, fills, passes>>
    /\ UNCHANGED <<matchVars, calcVars, allVars, feeVars, clientVars, botVars>>

NextRerun == FindMatchesAgain \/ WalkOrderbookAgain

SpecRerun == InitRerun /\ [][NextRerun]_vars

----------------------------------------------------------------------------
(* Scenario "client": one call of a venue client's get_orderbook           *)

\* Most entries of one list of a venue's response.
MaxEntries == 2

\* Entries of a Kalshi response: [cents, size], two of them at one price,
\* and one entry too short to be a level.
KalshiEntries == {<<40, 10>>, <<55, 5>>, <<55, 7>>, <<70>>}

\* Entries of a Polymarket book: price and size, one price that is no number.
PolymarketEntries ==
    {[price |-> <<45>>, size |-> 10], [price |-> <<52>>, size |-> 5],
     [price |-> <<>>, size |-> 10]}

\* A token's book: its two lists, or the empty dict of a failed request.
TokenBooks ==
    [{"bids", "asks"} -> SeqsUpTo(PolymarketEntries, MaxEntries)] \cup {<<>>}

\* The NO token's books tried with a YES book: none, or the YES book's lists
\* the other way round.
Mirrored(token_book) ==
    IF token_book = <<>> THEN <<>>
    ELSE [side \in {"bids", "asks"} |->
             IF side = "bids" THEN token_book["asks"] ELSE token_book["bids"]]

InitClient ==
    /\ scenario = "client"
    /\ status = "called"
    /\ \/ \E yes, no \in SeqsUpTo(KalshiEntries, MaxEntries) :
              response = [venue |-> KALSHI, market_id |-> <<"K", 1>>,
                          orderbook |-> [yes |-> yes, no |-> no]]
       \/ \E yes_book \in TokenBooks : \E no_book \in {<<>>, Mirrored(yes_book)} :
              response = [venue |-> POLYMARKET, market_id |-> <<"P", 1>>,
                          yes_book |-> yes_book, no_book |-> no_book]
    /\ book = None
    /\ MatchIdle /\ WalkIdle /\ CalcIdle /\ AllIdle /\ FeeIdle /\ RerunIdle /\ BotIdle

KalshiGetOrderbook ==
    /\ scenario = "client"
    /\ status = "called"
    /\ response.venue = KALSHI
    /\ book' = kalshi_get_orderbook(response.market_id, response.orderbook)
    /\ status' = "returned"
    /\ UNCHANGED <<scenario, response>>
    /\ UNCHANGED <<matchVars, walkVars, calcVars, allVars, feeVars, rerunVars, botVars>>

PolymarketGetOrderbook ==
    /\ scenario = "client"
    /\ status = "called"
    /\ response.venue = POLYMARKET
    /\ book' = polymarket_get_orderbook(response.market_id, response.yes_book,
                                        response.no_book)
    /\ status' = "returned"
    /\ UNCHANGED <<scenario, response>>
    /\ UNCHANGED <<matchVars, walkVars, calcVars, allVars, feeVars, rerunVars, botVars>>

NextClient == KalshiGetOrderbook \/ PolymarketGetOrderbook

SpecClient == InitClient /\ [][NextClient]_vars

----------------------------------------------------------------------------
(* Scenario "fee": one call of a FeeCalculator method                      *)

ContractCounts == (0 - 1)..MaxContracts

CentPrices == 0..100

Platforms == {KALSHI, POLYMARKET}

FeeCalls ==
    [fn : {"kalshi_taker_fee", "polymarket_taker_fee"},
     contracts : ContractCounts, price : CentPrices]
        \cup [fn : {"estimate_total_fees"},
              buy_yes_platform : Platforms, buy_yes_price : CentPrices,
              buy_no_platform : Platforms, buy_no_price : LegPrices,
              contracts : ContractCounts]

InitFee ==
    /\ scenario = "fee"
    /\ status = "called"
    /\ fee_call \in FeeCalls
    /\ fee = None
    /\ MatchIdle /\ WalkIdle /\ CalcIdle /\ AllIdle /\ RerunIdle /\ ClientIdle /\ BotIdle

KalshiTakerFee ==
    /\ scenario = "fee"
    /\ status = "called"
    /\ fee_call.fn = "kalshi_taker_fee"
    /\ fee' = kalshi_taker_fee(fee_call.contracts, fee_call.price)
    /\ status' = "returned"
    /\ UNCHANGED <<scenario, fee_call, matchVars, walkVars, calcVars, allVars, rerunVars, clientVars, botVars>>

PolymarketTakerFee ==
    /\ scenario = "fee"
    /\ status = "called"
    /\ fee_call.fn = "polymarket_taker_fee"
    /\ fee' = polymarket_taker_fee(fee_call.contracts, fee_call.price)
    /\ status' = "returned"
    /\ UNCHANGED <<scenario, fee_call, matchVars, walkVars, calcVars, allVars, rerunVars, clientVars, botVars>>

EstimateTotalFees ==
    /\ scenario = "fee"
    /\ status = "called"
    /\ fee_call.fn = "estimate_total_fees"
    /\ fee' = estimate_total_fees(fee_call.buy_yes_platform, fee_call.buy_yes_price,
                                  fee_call.buy_no_platform, fee_call.buy_no_price,
                                  fee_call.contracts)
    /\ status' = "returned"
    /\ UNCHANGED <<scenario, fee_call, matchVars, walkVars, calcVars, allVars, rerunVars, clientVars, botVars>>

NextFee == KalshiTakerFee \/ PolymarketTakerFee \/ EstimateTotalFees

SpecFee == InitFee /\ [][NextFee]_vars

----------------------------------------------------------------------------
(* Scenario "run": one call of ArbitrageBot.run                            *)
(* The call is followed from one await to the next. What an await gives    *)
(* is the environment's: a poll cycle returns or raises, a sleep ends or is *)
(* interrupted by the task's cancellation or a KeyboardInterrupt. stop()    *)
(* is the signal handler's and can come between any two steps. The         *)
(* clients' close() is taken to complete.                                  *)

\* Most poll cycles of one behaviour.
MaxCycles == 3

\* The exceptions the loop's first two handlers break on.
Interrupts == {"CancelledError", "KeyboardInterrupt"}

\* The bot before run() is called, with the frame of the call to come.
ArbitrageBot_init ==
    [running |-> FALSE, pc |-> "run", kalshi_closed |-> FALSE, poly_closed |-> FALSE,
     cycles |-> 0, errors |-> 0, stopped |-> FALSE, broke |-> "nothing"]

InitRun ==
    /\ scenario = "run"
    /\ status = "called"
    /\ bot = ArbitrageBot_init
    /\ cycle = None
    /\ MatchIdle /\ WalkIdle /\ CalcIdle /\ AllIdle /\ FeeIdle /\ RerunIdle
    /\ ClientIdle

RunIdleRest ==
    /\ UNCHANGED <<scenario, cycle>>
    /\ UNCHANGED <<matchVars, walkVars, calcVars, allVars, feeVars, rerunVars, clientVars>>

\* self.running = True and the three show_info calls
RunStarts ==
    /\ scenario = "run" /\ status = "called"
    /\ bot.pc = "run"
    /\ bot' = [bot EXCEPT !.running = TRUE, !.pc = "while"]
    /\ UNCHANGED status
    /\ RunIdleRest

\* while self.running: into the try, or past the loop to _cleanup
WhileRunning ==
    /\ scenario = "run" /\ status = "called"
    /\ bot.pc = "while"
    /\ IF bot.running
       THEN /\ bot.cycles < MaxCycles
            /\ bot' = [bot EXCEPT !.pc = "poll_cycle", !.cycles = @ + 1]
       ELSE bot' = [bot EXCEPT !.pc = "cleanup"]
    /\ UNCHANGED status
    /\ RunIdleRest

\* await self._poll_cycle() returns
PollCycleReturns ==
    /\ scenario = "run" /\ status = "called"
    /\ bot.pc = "poll_cycle"
    /\ bot' = [bot EXCEPT !.pc = "sleep"]
    /\ UNCHANGED status
    /\ RunIdleRest

\* await self._poll_cycle() raises: the first two handlers break, the third
\* shows the error and goes on to its pause.
PollCycleRaises ==
    /\ scenario = "run" /\ status = "called"
    /\ bot.pc = "poll_cycle"
    /\ \E exception \in Interrupts \cup {"Exception"} :
           bot' = IF exception \in Interrupts
                  THEN [bot EXCEPT !.pc = "cleanup", !.broke = exception]
                  ELSE [bot EXCEPT !.pc = "pause", !.errors = @ + 1]
    /\ UNCHANGED status
    /\ RunIdleRest

\* await asyncio.sleep(poll_interval_seconds) ends
SleepReturns ==
    /\ scenario = "run" /\ status = "called"
    /\ bot.pc = "sleep"
    /\ bot' = [bot EXCEPT !.pc = "while"]
    /\ UNCHANGED status
    /\ RunIdleRest

\* await asyncio.sleep(poll_interval_seconds) is interrupted: still inside
\* the try, so a handler breaks.
SleepRaises ==
    /\ scenario = "run" /\ status = "called"
    /\ bot.pc = "sleep"
    /\ \E exception \in Interrupts :
           bot' = [bot EXCEPT !.pc = "cleanup", !.broke = exception]
    /\ UNCHANGED status
    /\ RunIdleRest

\* await asyncio.sleep(5) of the third handler ends
PauseReturns ==
    /\ scenario = "run" /\ status = "called"
    /\ bot.pc = "pause"
    /\ bot' = [bot EXCEPT !.pc = "while"]
    /\ UNCHANGED status
    /\ RunIdleRest

\* await asyncio.sleep(5) of the third handler is interrupted: an exception
\* raised inside a handler is not offered to the handlers of the same try,
\* so it leaves run().
PauseRaises ==
    /\ scenario = "run" /\ status = "called"
    /\ bot.pc = "pause"
    /\ \E exception \in Interrupts :
           /\ bot' = [bot EXCEPT !.pc = "raised"]
           /\ status' = exception
    /\ RunIdleRest

\* _cleanup: await self.kalshi_client.close()
CleanupKalshi ==
    /\ scenario = "run" /\ status = "called"
    /\ bot.pc = "cleanup"
    /\ bot' = [bot EXCEPT !.kalshi_closed = TRUE, !.pc = "cleanup_poly"]
    /\ UNCHANGED status
    /\ RunIdleRest

\* _cleanup: await self.poly_client.close(), show_info, and run() returns
CleanupPoly ==
    /\ scenario = "run" /\ status = "called"
    /\ bot.pc = "cleanup_poly"
    /\ bot' = [bot EXCEPT !.poly_closed = TRUE, !.pc = "returned"]
    /\ status' = "returned"
    /\ RunIdleRest

\* stop(), from the signal handler
Stop ==
    /\ scenario = "run" /\ status = "called"
    /\ bot' = [bot EXCEPT !.running = FALSE, !.stopped = TRUE]
    /\ UNCHANGED status
    /\ RunIdleRest

NextRun ==
    \/ RunStarts \/ WhileRunning \/ PollCycleReturns \/ PollCycleRaises
    \/ SleepReturns \/ SleepRaises \/ PauseReturns \/ PauseRaises
    \/ CleanupKalshi \/ CleanupPoly \/ Stop

SpecRun == InitRun /\ [][NextRun]_vars

----------------------------------------------------------------------------
(* Scenario "poll": one call of ArbitrageBot._poll_cycle                   *)
(* The call is followed from one await to the next. What the venues list   *)
(* is fixed at the start; whether a request fails is the environment's and *)
(* is decided when the request is awaited.                                 *)

\* Titles of the markets the venues list in a poll cycle.
PollTitles == {<<"b", " ", "a">>, <<"a", " ", "c">>}

PollMarketLists(platform, prefix) ==
    {ms \in MarketLists(platform, prefix) : \A k \in 1..Len(ms) : ms[k].title \in PollTitles}

\* The book a venue has for a market.
PollBook(market_id) ==
    Orderbook(market_id,
              <<>>, <<[price |-> 45, size |-> 10], [price |-> 50, size |-> 20]>>,
              <<>>, <<[price |-> 45, size |-> 20], [price |-> 53, size |-> 10]>>)

\* What asyncio.gather(..., return_exceptions=True) holds for one
\* get_orderbook call: the Orderbook returned, the None returned, or the
\* exception raised. PolymarketClient.get_orderbook returns None for a
\* market without token ids and a book without levels when both its requests
\* fail with an HTTP error; KalshiClient.get_orderbook does neither.
FetchResults(market, platform) ==
    {[kind |-> "Orderbook", value |-> PollBook(market.market_id)], [kind |-> "Exception"]}
        \cup (IF platform = POLYMARKET
              THEN {[kind |-> "None"],
                    [kind |-> "Orderbook",
                     value |-> Orderbook(market.market_id, <<>>, <<>>, <<>>, <<>>)]}
              ELSE {})

\* not isinstance(result, Exception) and result
Usable(result) == result.kind = "Orderbook"

BooksByMarket_UntilFailure(markets, results) ==
    LET kept == {k \in 1..Len(markets) : \A n \in 1..k : Usable(results[n])}
    IN  [id \in {markets[k].market_id : k \in kept} |->
            results[CHOOSE k \in kept : markets[k].market_id = id].value]

\* The dict one of the two loops over zip(pairs, results) builds, markets
\* being the pairs' markets of that venue: the usable results by market id, a
\* later one replacing an earlier one of the same id.
BooksByMarket(markets, results) ==
    LET kept == {k \in 1..Len(markets) : Usable(results[k])}
        last(id) == CHOOSE k \in kept :
                        /\ markets[k].market_id = id
                        /\ \A n \in kept : markets[n].market_id = id => n <= k
    IN  [id \in {markets[k].market_id : k \in kept} |-> results[last(id)].value]

\* The frame of a call of _poll_cycle that has not yet awaited anything.
PollFrame(kalshi_listed, poly_listed, t) ==
    [listed |-> [kalshi |-> kalshi_listed, poly |-> poly_listed],
     matcher |-> FuzzyMatcher(t),
     calculator |-> ArbitrageCalculator,
     pc |-> "fetch_markets",
     failed |-> {},
     kalshi_markets |-> <<>>, poly_markets |-> <<>>,
     pairs |-> <<>>,
     kalshi_results |-> <<>>, poly_results |-> <<>>,
     kalshi_orderbooks |-> <<>>, poly_orderbooks |-> <<>>,
     opportunities |-> <<>>,
     matched |-> FALSE, calculated |-> FALSE]

InitPoll ==
    /\ scenario = "poll"
    /\ status = "called"
    /\ bot = None
    /\ \E kalshi_listed \in PollMarketLists(KALSHI, "K") :
       \E poly_listed \in PollMarketLists(POLYMARKET, "P") :
       \E t \in Thresholds :
           cycle = PollFrame(kalshi_listed, poly_listed, t)
    /\ MatchIdle /\ WalkIdle /\ CalcIdle /\ AllIdle /\ FeeIdle /\ RerunIdle
    /\ ClientIdle

PollIdleRest ==
    /\ UNCHANGED <<scenario, bot>>
    /\ UNCHANGED <<matchVars, walkVars, calcVars, allVars, feeVars, rerunVars, clientVars>>

\* 1. await asyncio.gather(get_markets, get_markets): an exception of either
\* request is shown and ends the cycle.
FetchMarkets ==
    /\ scenario = "poll" /\ status = "called"
    /\ cycle.pc = "fetch_markets"
    /\ \E failed \in SUBSET {KALSHI, POLYMARKET} :
           IF failed # {}
           THEN /\ cycle' = [cycle EXCEPT !.failed = failed, !.pc = "returned"]
                /\ status' = "returned"
           ELSE /\ cycle' = [cycle EXCEPT !.kalshi_markets = cycle.listed.kalshi,
                                          !.poly_markets = cycle.listed.poly,
                                          !.pc = "find_matches"]
                /\ UNCHANGED status
    /\ PollIdleRest

\* 2. pairs = self.matcher.find_matches(kalshi_markets, poly_markets), and
\* the test of step 3: if pairs
MatchMarkets ==
    /\ scenario = "poll" /\ status = "called"
    /\ cycle.pc = "find_matches"
    /\ \E out \in find_matches(cycle.matcher, cycle.kalshi_markets, cycle.poly_markets) :
           IF out.raised # "none"
           THEN /\ cycle' = [cycle EXCEPT !.pc = "raised"]
                /\ status' = out.raised
           ELSE /\ cycle' = [cycle EXCEPT !.pairs = out.matches,
                                          !.matched = TRUE,
                                          !.pc = IF out.matches # <<>>
                                                 THEN "fetch_orderbooks"
                                                 ELSE "find_all_opportunities"]
                /\ UNCHANGED status
    /\ PollIdleRest

\* 3. the two gathers over the pairs, with return_exceptions=True, and the
\* two loops that fill the dicts
FetchOrderbooks ==
    /\ scenario = "poll" /\ status = "called"
    /\ cycle.pc = "fetch_orderbooks"
    /\ LET n == Len(cycle.pairs)
           kalshi_of == [k \in 1..n |-> cycle.pairs[k].kalshi_market]
           poly_of == [k \in 1..n |-> cycle.pairs[k].poly_market]
       IN  \E kalshi_results \in [1..n -> UNION {FetchResults(kalshi_of[k], KALSHI) : k \in 1..n}] :
           \E poly_results \in [1..n -> UNION {FetchResults(poly_of[k], POLYMARKET) : k \in 1..n}] :
               /\ \A k \in 1..n : kalshi_results[k] \in FetchResults(kalshi_of[k], KALSHI)
               /\ \A k \in 1..n : poly_results[k] \in FetchResults(poly_of[k], POLYMARKET)
               /\ cycle' = [cycle EXCEPT
                                !.kalshi_results = kalshi_results,
                                !.poly_results = poly_results,
                                !.kalshi_orderbooks = BooksByMarket(kalshi_of, kalshi_results),
                                !.poly_orderbooks = BooksByMarket(poly_of, poly_results),
                                !.pc = "find_all_opportunities"]
    /\ UNCHANGED status
    /\ PollIdleRest

\* 4. and 5. find_all_opportunities on the pairs and the two dicts, and the
\* display of what it returns
CalculateAndDisplay ==
    /\ scenario = "poll" /\ status = "called"
    /\ cycle.pc = "find_all_opportunities"
    /\ cycle' = [cycle EXCEPT
                     !.opportunities = find_all_opportunities(cycle.calculator, cycle.pairs,
                                                              cycle.kalshi_orderbooks,
                                                              cycle.poly_orderbooks),
                     !.calculated = TRUE,
                     !.pc = "returned"]
    /\ status' = "returned"
    /\ PollIdleRest

NextPoll == FetchMarkets \/ MatchMarkets \/ FetchOrderbooks \/ CalculateAndDisplay

SpecPoll == InitPoll /\ [][NextPoll]_vars

----------------------------------------------------------------------------
(* The engine: any one of its operations                                   *)

Init ==
    \/ InitMatch \/ InitWalk \/ InitCalc \/ InitAll \/ InitFee \/ InitRerun
    \/ InitSimilarity \/ InitClient \/ InitRun \/ InitPoll

Next ==
    \/ NextMatch \/ NextWalk \/ NextCalc \/ NextAll \/ NextFee \/ NextRerun
    \/ NextSimilarity \/ NextClient \/ NextRun \/ NextPoll

Spec == Init /\ [][Next]_vars

----------------------------------------------------------------------------
(* Properties of the matcher                                               *)

MatchReturned == scenario = "match" /\ status = "returned"

KalshiIdx == 1..Len(kalshi_markets)
PolyIdx == 1..Len(poly_markets)

RowBest(i) == ArgMax(scores[i])
RowBestScore(i) == scores[i][RowBest(i)]

ReachesThreshold(score) == ScoreGeq(score, Score(threshold, 1))

\* matches holds the pair (kalshi_markets[i], poly_markets[j]).
Paired(i, j) ==
    \E k \in 1..Len(matches) :
        /\ matches[k].kalshi_market = kalshi_markets[i]
        /\ matches[k].poly_market = poly_markets[j]

KalshiPaired(i) == \E j \in PolyIdx : Paired(i, j)
PolyPaired(j) == \E i \in KalshiIdx : Paired(i, j)

\* C1: every returned pair has match_score >= threshold, a best score equal
\* to the threshold is accepted unless its Polymarket market is taken, and no
\* Kalshi market id and no Polymarket market id is in two returned pairs.
C1_MatchesAboveThresholdOneToOne ==
    MatchReturned =>
        /\ \A k \in 1..Len(matches) : ReachesThreshold(matches[k].match_score)
        /\ \A a, b \in 1..Len(matches) :
               a # b =>
                   /\ matches[a].kalshi_market.market_id
                          # matches[b].kalshi_market.market_id
                   /\ matches[a].poly_market.market_id
                          # matches[b].poly_market.market_id
        /\ scores # <<>> =>
               \A i \in KalshiIdx :
                   RowBestScore(i) = Score(threshold, 1) =>
                       KalshiPaired(i) \/ PolyPaired(RowBest(i))

\* Two pairs returned, one of them with a score exactly at the threshold.
C1_Witness ==
    /\ MatchReturned
    /\ Len(matches) = 2
    /\ \E k \in 1..2 : matches[k].match_score = Score(threshold, 1)

\* The Kalshi markets whose best Polymarket market is j, with a best score
\* that reaches the threshold.
Claimants(j) ==
    {i \in KalshiIdx : RowBest(i) = j /\ ReachesThreshold(RowBestScore(i))}

DistinctScores(group) ==
    \A a, b \in group : a # b => RowBestScore(a) # RowBestScore(b)

\* C2: when several Kalshi markets have the same best Polymarket market, with
\* different best scores that all reach the threshold, the one with the
\* highest score is paired with it and every other one is in no pair.
C2_GreedyDropsLowerClaimant ==
    MatchReturned /\ scores # <<>> =>
        \A j \in PolyIdx :
            Cardinality(Claimants(j)) >= 2 /\ DistinctScores(Claimants(j)) =>
                \A i \in Claimants(j) :
                    IF \A other \in Claimants(j) :
                           ScoreGeq(RowBestScore(i), RowBestScore(other))
                    THEN Paired(i, j)
                    ELSE ~KalshiPaired(i)

\* A dropped Kalshi market for which another Polymarket market, in no pair,
\* scores at or above the threshold.
C2_Witness ==
    /\ MatchReturned
    /\ scores # <<>>
    /\ \E j \in PolyIdx :
           /\ Cardinality(Claimants(j)) >= 2
           /\ DistinctScores(Claimants(j))
           /\ \E i \in Claimants(j) : \E other \in PolyIdx :
                  /\ ~KalshiPaired(i)
                  /\ other # j
                  /\ ~PolyPaired(other)
                  /\ ReachesThreshold(scores[i][other])

IsRowMax(i, j) == \A k \in PolyIdx : ScoreGeq(scores[i][j], scores[i][k])

\* C15: in every returned pair the Polymarket market is a maximum of the
\* Kalshi market's row of the similarity matrix and match_score is that
\* maximum; of several maxima of a row only the one with the lowest index is
\* ever paired with the row's Kalshi market.
C15_PairsTakeFirstRowMaximum ==
    MatchReturned /\ scores # <<>> =>
        /\ \A n \in 1..Len(matches) :
               \E i \in KalshiIdx : \E j \in PolyIdx :
                   /\ matches[n].kalshi_market = kalshi_markets[i]
                   /\ matches[n].poly_market = poly_markets[j]
                   /\ matches[n].match_score = scores[i][j]
                   /\ IsRowMax(i, j)
        /\ \A i \in KalshiIdx : \A j \in PolyIdx :
               Paired(i, j) => IsRowMax(i, j) /\ \A k \in 1..(j - 1) : ~IsRowMax(i, k)

\* A Kalshi market whose row has two maxima at or above the threshold: the
\* first is paired with another Kalshi market, the later one is in no pair,
\* and the Kalshi market is in no pair either.
C15_Witness ==
    /\ MatchReturned
    /\ scores # <<>>
    /\ \E i \in KalshiIdx : \E j, k \in PolyIdx :
           /\ j < k
           /\ IsRowMax(i, j) /\ IsRowMax(i, k)
           /\ ReachesThreshold(scores[i][j])
           /\ PolyPaired(j)
           /\ ~PolyPaired(k)
           /\ ~KalshiPaired(i)

Occurrences(s, x) == Cardinality({k \in 1..Len(s) : s[k] = x})

\* s and t hold the same elements, each as often.
SameElements(s, t) ==
    /\ Len(s) = Len(t)
    /\ \A k \in 1..Len(s) : Occurrences(s, s[k]) = Occurrences(t, s[k])

SimilarityReturned == scenario = "similarity" /\ status = "returned"

\* C14: the score of two titles does not depend on the order of their
\* tokens: two Kalshi titles that are reorderings of one another's tokens
\* have the same score against every Polymarket title, and two titles whose
\* normalized forms hold the same tokens, each as often, score 100.
C14_SimilarityIgnoresTokenOrder ==
    SimilarityReturned =>
        /\ \A a, b \in KalshiIdx :
               SameElements(Split(kalshi_markets[a].title), Split(kalshi_markets[b].title))
                   => \A j \in PolyIdx : scores[a][j] = scores[b][j]
        /\ \A i \in KalshiIdx : \A j \in PolyIdx :
               SameElements(Split(normalized_title(kalshi_markets[i])),
                            Split(normalized_title(poly_markets[j])))
                   => scores[i][j] = Score(100, 1)

\* Two titles of three tokens in different orders, whose normalized forms
\* differ, with a score against the third title that is neither 0 nor 100.
C14_Witness ==
    /\ SimilarityReturned
    /\ Len(Split(kalshi_markets[1].title)) = 3
    /\ normalized_title(kalshi_markets[1]) # normalized_title(kalshi_markets[2])
    /\ scores[1][1] \notin {Score(0, 1), Score(100, 1)}
    /\ scores[1][1] = scores[2][1]

----------------------------------------------------------------------------
(* Properties of the opportunity computation                               *)

CalcReturned == scenario = "calc" /\ status = "returned"

\* Strategy 1: YES on Kalshi, NO on Polymarket.
WalkKalshiYes ==
    _walk_orderbook(ArbitrageCalculator, kalshi_orderbook.yes_asks,
                    poly_orderbook.no_asks, KALSHI, POLYMARKET)

\* Strategy 2: YES on Polymarket, NO on Kalshi.
WalkPolyYes ==
    _walk_orderbook(ArbitrageCalculator, poly_orderbook.yes_asks,
                    kalshi_orderbook.no_asks, POLYMARKET, KALSHI)

ProfitDescending(levels) ==
    \A k \in 1..Len(levels) - 1 :
        levels[k].profit_percentage >= levels[k + 1].profit_percentage

\* C6: calculate_opportunity returns None exactly when both walks emit no
\* level; otherwise the opportunity holds exactly the levels of the two walks,
\* in descending profit_percentage, so best_profit_percentage is their maximum.
C6_OpportunityMergesBothWalks ==
    CalcReturned =>
        /\ opp = None <=> (WalkKalshiYes = <<>> /\ WalkPolyYes = <<>>)
        /\ opp # None =>
               /\ SameElements(opp.levels, WalkKalshiYes \o WalkPolyYes)
               /\ ProfitDescending(opp.levels)
               /\ \A k \in 1..Len(opp.levels) :
                      best_profit_percentage(opp) >= opp.levels[k].profit_percentage
               /\ opp.kalshi_market = pair.kalshi_market
               /\ opp.poly_market = pair.poly_market

\* Both walks emit levels and the second walk holds the best one, so the
\* concatenation is not yet in order.
C6_Witness ==
    /\ CalcReturned
    /\ opp # None
    /\ WalkKalshiYes # <<>>
    /\ WalkPolyYes # <<>>
    /\ WalkPolyYes[1].profit_percentage > WalkKalshiYes[1].profit_percentage

AllReturned == scenario = "all" /\ status = "returned"

\* The place in pairs of the pair an opportunity was computed for.
PairIndex(o) == CHOOSE k \in 1..Len(pairs) : pairs[k].kalshi_market = o.kalshi_market

\* C7: find_all_opportunities returns the opportunities in descending order
\* of their first level's profit percentage, and two opportunities with the
\* same best profit percentage keep the order of their pairs in the input.
C7_OpportunitiesSortedStable ==
    AllReturned =>
        \A a, b \in 1..Len(opportunities) :
            a < b =>
                /\ opportunities[a].levels[1].profit_percentage
                       >= opportunities[b].levels[1].profit_percentage
                /\ opportunities[a].levels[1].profit_percentage
                       = opportunities[b].levels[1].profit_percentage
                   => PairIndex(opportunities[a]) < PairIndex(opportunities[b])

\* Two opportunities with the same best profit percentage and different
\* levels.
C7_Witness ==
    /\ AllReturned
    /\ Len(opportunities) >= 2
    /\ opportunities[1].levels[1].profit_percentage
           = opportunities[2].levels[1].profit_percentage
    /\ opportunities[1].levels # opportunities[2].levels

BothBooks(k) ==
    /\ pairs[k].kalshi_market.market_id \in DOMAIN kalshi_orderbooks
    /\ pairs[k].poly_market.market_id \in DOMAIN poly_orderbooks

\* What calculate_opportunity gives for pairs[k] when both books are there.
OpportunityOf(k) ==
    calculate_opportunity(ArbitrageCalculator, pairs[k],
                          kalshi_orderbooks[pairs[k].kalshi_market.market_id],
                          poly_orderbooks[pairs[k].poly_market.market_id])

OpportunitiesFor(k) ==
    {n \in 1..Len(opportunities) :
        opportunities[n].kalshi_market = pairs[k].kalshi_market}

\* C8: missing data raises nothing and gives an empty or reduced result.
\* find_matches returns the empty list for an empty Kalshi or Polymarket list
\* and when no best score reaches the threshold; find_all_opportunities gives
\* nothing for a pair with a book missing and still gives every other pair's
\* opportunity.
C8_MissingDataIsNotAnError ==
    /\ scenario \in {"match", "all"} => status \in {"called", "returned"}
    /\ MatchReturned =>
           /\ kalshi_markets = <<>> \/ poly_markets = <<>> => matches = <<>>
           /\ scores # <<>> /\ (\A i \in KalshiIdx : ~ReachesThreshold(RowBestScore(i)))
                  => matches = <<>>
    /\ AllReturned =>
           \A k \in 1..Len(pairs) :
               IF BothBooks(k) /\ OpportunityOf(k) # None
               THEN \E n \in 1..Len(opportunities) :
                        /\ OpportunitiesFor(k) = {n}
                        /\ opportunities[n] = OpportunityOf(k)
               ELSE OpportunitiesFor(k) = {}

\* The first pair lacks a book and the second pair's opportunity is returned.
C8_Witness ==
    /\ AllReturned
    /\ Len(pairs) >= 2
    /\ ~BothBooks(1)
    /\ OpportunitiesFor(2) # {}

AskPrices(ladder) == {ladder[k].price : k \in 1..Len(ladder)}

\* The level buys YES on one venue and NO on the other, each at a price of
\* that venue's ask ladder for that side.
CrossVenue(lvl, kbook, pbook) ==
    \/ /\ lvl.buy_yes_platform = KALSHI
       /\ lvl.buy_no_platform = POLYMARKET
       /\ lvl.buy_yes_price \in AskPrices(kbook.yes_asks)
       /\ lvl.buy_no_price \in AskPrices(pbook.no_asks)
    \/ /\ lvl.buy_yes_platform = POLYMARKET
       /\ lvl.buy_no_platform = KALSHI
       /\ lvl.buy_yes_price \in AskPrices(pbook.yes_asks)
       /\ lvl.buy_no_price \in AskPrices(kbook.no_asks)

\* C19: every level of every opportunity buys YES and NO on two different
\* venues: YES on Kalshi at a price of the Kalshi book's yes_asks with NO on
\* Polymarket at a price of the Polymarket book's no_asks, or YES on
\* Polymarket at a price of its yes_asks with NO on Kalshi at a price of its
\* no_asks; none combines the two ladders of one venue.
C19_LevelsCrossVenues ==
    /\ CalcReturned /\ opp # None =>
           \A k \in 1..Len(opp.levels) :
               CrossVenue(opp.levels[k], kalshi_orderbook, poly_orderbook)
    /\ AllReturned =>
           \A n \in 1..Len(opportunities) : \A k \in 1..Len(opportunities[n].levels) :
               CrossVenue(opportunities[n].levels[k],
                          kalshi_orderbooks[opportunities[n].kalshi_market.market_id],
                          poly_orderbooks[opportunities[n].poly_market.market_id])

\* An opportunity with levels of both strategies, one of them at prices that
\* the two ladders of a single venue do not offer together.
C19_Witness ==
    /\ CalcReturned
    /\ opp # None
    /\ \E k \in 1..Len(opp.levels) : opp.levels[k].buy_yes_platform = KALSHI
    /\ \E k \in 1..Len(opp.levels) :
           /\ opp.levels[k].buy_yes_platform = POLYMARKET
           /\ opp.levels[k].buy_yes_price \notin AskPrices(kalshi_orderbook.yes_asks)
           /\ opp.levels[k].buy_no_price \notin AskPrices(poly_orderbook.no_asks)

----------------------------------------------------------------------------
(* Properties of the walk                                                  *)

WalkReturned == scenario = "walk" /\ walk.pc \in {"break", "exhausted"}

NonNegativeSizes(ladder) == \A k \in 1..Len(ladder) : ladder[k].size >= 0

\* A Price Level the data model rules out: negative size, price outside [0,1].
MalformedLevel(lvl) == lvl.size < 0 \/ lvl.price < 0 \/ lvl.price > 100

Malformed(ladder) == \E k \in 1..Len(ladder) : MalformedLevel(ladder[k])

LevelsAboveThreshold ==
    \A k \in 1..Len(walk.levels) :
        walk.levels[k].profit_percentage >= ArbitrageCalculator.min_profit_threshold

LevelsNonIncreasing ==
    \A k \in 1..Len(walk.levels) - 1 :
        walk.levels[k].profit_percentage >= walk.levels[k + 1].profit_percentage

\* A pass whose heads have positive sizes and profit equal to the threshold.
AtThresholdHead ==
    /\ scenario = "walk"
    /\ walk.pc = "loop"
    /\ WalkLoopCond(walk)
    /\ HeadProfit(walk) = ArbitrageCalculator.min_profit_threshold
    /\ walk.yes_remaining[walk.yes_idx].size > 0
    /\ walk.no_remaining[walk.no_idx].size > 0

EmitsAtHead ==
    /\ Len(walk'.levels) = Len(walk.levels) + 1
    /\ walk'.levels[Len(walk'.levels)].profit_percentage = HeadProfit(walk)

\* C3: no level of a walk is below min_profit_threshold, a pass whose profit
\* equals the threshold emits its level, and on ladders sorted ascending by
\* price the emitted levels have non-increasing profit_percentage.
C3_WalkProfitNonIncreasing ==
    /\ [](scenario = "walk" =>
            /\ LevelsAboveThreshold
            /\ (SortedAsc(yes_asks) /\ SortedAsc(no_asks) => LevelsNonIncreasing))
    /\ [][AtThresholdHead => EmitsAtHead]_vars

\* Sorted ladders, two levels of different profit, the last one exactly at
\* the threshold.
C3_Witness ==
    /\ WalkReturned
    /\ SortedAsc(yes_asks) /\ SortedAsc(no_asks)
    /\ Len(walk.levels) = 2
    /\ walk.levels[1].profit_percentage > walk.levels[2].profit_percentage
    /\ walk.levels[2].profit_percentage = ArbitrageCalculator.min_profit_threshold

\* No YES level at or after the YES pointer combines with a NO level at or
\* after the NO pointer to a profit that reaches the threshold.
NothingProfitableLeft ==
    \A a \in walk.yes_idx..Len(yes_asks) : \A b \in walk.no_idx..Len(no_asks) :
        100 - (yes_asks[a].price + no_asks[b].price)
            < ArbitrageCalculator.min_profit_threshold

BelowThresholdHead ==
    /\ scenario = "walk"
    /\ walk.pc = "loop"
    /\ WalkLoopCond(walk)
    /\ HeadProfit(walk) < ArbitrageCalculator.min_profit_threshold

\* C4: a pass whose gross profit is below the threshold stops the walk and
\* emits nothing, nothing is emitted after the stop, and on sorted ladders no
\* combination of the levels still ahead of the two pointers reaches the
\* threshold when the walk stops.
C4_EarlyTerminationSound ==
    /\ [](scenario = "walk" /\ walk.pc = "break" =>
            /\ HeadProfit(walk) < ArbitrageCalculator.min_profit_threshold
            /\ (SortedAsc(yes_asks) /\ SortedAsc(no_asks) => NothingProfitableLeft))
    /\ [][BelowThresholdHead => walk'.pc = "break" /\ walk'.levels = walk.levels]_vars
    /\ [][WalkReturned => walk'.levels = walk.levels]_vars

\* Scenario B of the spec's shape: one level emitted, then the stop, with
\* levels left on both ladders.
C4_Witness ==
    /\ scenario = "walk"
    /\ walk.pc = "break"
    /\ SortedAsc(yes_asks) /\ SortedAsc(no_asks)
    /\ Len(walk.levels) = 1
    /\ walk.yes_idx = 2
    /\ walk.no_idx = 1

Quantities(levels) == [k \in 1..Len(levels) |-> levels[k].quantity]

RECURSIVE FilledAt(_, _, _)
FilledAt(fs, side, k) ==
    IF fs = <<>> THEN 0
    ELSE (IF Head(fs)[side] = k THEN Head(fs).quantity ELSE 0)
             + FilledAt(Tail(fs), side, k)

LadderSizes(ladder) == [k \in 1..Len(ladder) |-> ladder[k].size]

\* C5: for ladders with non-negative sizes the quantities of the emitted
\* levels sum to at most min(sum of YES sizes, sum of NO sizes), and the
\* quantity emitted against one ladder level is at most that level's size.
C5_QuantityConservation ==
    scenario = "walk" /\ NonNegativeSizes(yes_asks) /\ NonNegativeSizes(no_asks) =>
        /\ Quantities(walk.levels) = [k \in 1..Len(fills) |-> fills[k].quantity]
        /\ SumSeq(Quantities(walk.levels))
               <= Min(SumSeq(LadderSizes(yes_asks)), SumSeq(LadderSizes(no_asks)))
        /\ \A k \in 1..Len(yes_asks) : FilledAt(fills, "yes", k) <= yes_asks[k].size
        /\ \A k \in 1..Len(no_asks) : FilledAt(fills, "no", k) <= no_asks[k].size

\* One YES level consumed in two parts by two NO levels, both ladders used up.
C5_Witness ==
    /\ WalkReturned
    /\ NonNegativeSizes(yes_asks) /\ NonNegativeSizes(no_asks)
    /\ Len(fills) = 2
    /\ fills[1].yes = fills[2].yes
    /\ fills[1].no # fills[2].no
    /\ SumSeq(Quantities(walk.levels)) = SumSeq(LadderSizes(yes_asks))

\* A pass of the loop that does not stop on the threshold is about to run.
InPass ==
    /\ scenario = "walk"
    /\ walk.pc = "loop"
    /\ WalkLoopCond(walk)
    /\ HeadProfit(walk) >= ArbitrageCalculator.min_profit_threshold

YesHead == walk.yes_remaining[walk.yes_idx]
NoHead == walk.no_remaining[walk.no_idx]

\* The fields of a level agree with one another.
LevelConsistent(lvl) ==
    /\ lvl.quantity > 0
    /\ lvl.total_cost = lvl.buy_yes_price + lvl.buy_no_price
    /\ lvl.profit_percentage = 100 - lvl.total_cost
    /\ lvl.max_profit_dollars = lvl.quantity * lvl.profit_percentage

\* The pass emits exactly one level, for the smaller remaining size of the
\* two heads at the heads' prices.
EmitsHeadLevel ==
    /\ Len(walk'.levels) = Len(walk.levels) + 1
    /\ SubSeq(walk'.levels, 1, Len(walk.levels)) = walk.levels
    /\ LET lvl == walk'.levels[Len(walk'.levels)]
       IN  /\ lvl.quantity = Min(YesHead.size, NoHead.size)
           /\ lvl.buy_yes_price = YesHead.price
           /\ lvl.buy_no_price = NoHead.price
           /\ lvl.buy_yes_platform = walk.yes_platform
           /\ lvl.buy_no_platform = walk.no_platform
           /\ LevelConsistent(lvl)

\* C13: every emitted level has quantity = min(remaining YES size, remaining
\* NO size) of the two current heads, with quantity > 0, total_cost =
\* buy_yes_price + buy_no_price, profit_percentage = 1 - total_cost and
\* max_profit_dollars = quantity * profit_percentage; a pass whose min
\* quantity is not positive emits no level.
C13_LevelFieldsFromHeads ==
    /\ [](scenario = "walk" =>
            \A k \in 1..Len(walk.levels) : LevelConsistent(walk.levels[k]))
    /\ [][InPass =>
            IF Min(YesHead.size, NoHead.size) > 0
            THEN EmitsHeadLevel
            ELSE walk'.levels = walk.levels]_vars

\* A pass on a zero-size head that emitted nothing, then a level for the
\* smaller of two different remaining sizes.
C13_Witness ==
    /\ WalkReturned
    /\ Len(yes_asks) = 2
    /\ yes_asks[1].size = 0
    /\ passes = 2
    /\ Len(walk.levels) = 1
    /\ walk.levels[1].quantity = yes_asks[2].size
    /\ walk.levels[1].quantity < no_asks[1].size

\* The entries of a remaining list other than entry k are as they were.
OthersKept(before, after, k) ==
    /\ Len(after) = Len(before)
    /\ \A n \in 1..Len(before) : n # k => after[n] = before[n]

\* The pointer idx moved to the next element iff the entry it was on has
\* remaining size zero after the pass; it moves nowhere else.
AdvancesIffUsedUp(idx, idx_after, remaining_after) ==
    IF remaining_after[idx].size = 0 THEN idx_after = idx + 1 ELSE idx_after = idx

\* The pass deducts quantity from both heads and from nothing else.
DeductsFromBothHeads(quantity) ==
    /\ walk'.yes_remaining[walk.yes_idx] = OrderbookLevel(YesHead.price, YesHead.size - quantity)
    /\ walk'.no_remaining[walk.no_idx] = OrderbookLevel(NoHead.price, NoHead.size - quantity)
    /\ OthersKept(walk.yes_remaining, walk'.yes_remaining, walk.yes_idx)
    /\ OthersKept(walk.no_remaining, walk'.no_remaining, walk.no_idx)

RemainingNonNegative ==
    /\ NonNegativeSizes(walk.yes_remaining)
    /\ NonNegativeSizes(walk.no_remaining)

\* C16: a pass that trades a quantity deducts it from the remaining size of
\* both current heads; a pointer moves to the next ladder element exactly
\* when its head's remaining size has reached zero, both pointers in the
\* same pass when the two remaining sizes were equal; and on ladders with
\* non-negative sizes no remaining size is ever negative, and the same rule
\* moves the pointers in the passes that trade nothing.
C16_DeductAndAdvance ==
    /\ [][InPass /\ Min(YesHead.size, NoHead.size) > 0 =>
            /\ DeductsFromBothHeads(Min(YesHead.size, NoHead.size))
            /\ AdvancesIffUsedUp(walk.yes_idx, walk'.yes_idx, walk'.yes_remaining)
            /\ AdvancesIffUsedUp(walk.no_idx, walk'.no_idx, walk'.no_remaining)
            /\ (YesHead.size = NoHead.size =>
                    walk'.yes_idx = walk.yes_idx + 1 /\ walk'.no_idx = walk.no_idx + 1)]_vars
    /\ [](scenario = "walk" /\ NonNegativeSizes(yes_asks) /\ NonNegativeSizes(no_asks)
            => RemainingNonNegative)
    /\ [][InPass /\ RemainingNonNegative /\ Min(YesHead.size, NoHead.size) = 0 =>
            /\ DeductsFromBothHeads(0)
            /\ AdvancesIffUsedUp(walk.yes_idx, walk'.yes_idx, walk'.yes_remaining)
            /\ AdvancesIffUsedUp(walk.no_idx, walk'.no_idx, walk'.no_remaining)]_vars

\* A pass on two heads of equal remaining size moved both pointers, after a
\* pass that moved one pointer and left a remainder on the other head.
C16_Witness ==
    /\ WalkReturned
    /\ NonNegativeSizes(yes_asks) /\ NonNegativeSizes(no_asks)
    /\ Len(fills) = 2
    /\ fills[1] = [yes |-> 1, no |-> 1, quantity |-> 10]
    /\ fills[2] = [yes |-> 1, no |-> 2, quantity |-> 10]
    /\ yes_asks[1].size = 20
    /\ walk.yes_idx = 2
    /\ walk.no_idx = 3
    /\ passes = 2

\* C17: the walk terminates on every pair of ladders, zero and negative
\* sizes included: every pass that does not stop on the threshold moves at
\* least one pointer forward and none backward, the loop makes at most
\* len(yes_asks) + len(no_asks) passes, and the call ends with a ladder
\* exhausted or with the profitability stop.
C17_WalkTerminates ==
    /\ <>WalkReturned
    /\ [][InPass =>
            /\ walk'.yes_idx >= walk.yes_idx
            /\ walk'.no_idx >= walk.no_idx
            /\ walk'.yes_idx + walk'.no_idx > walk.yes_idx + walk.no_idx]_vars
    /\ [](scenario = "walk" => passes <= Len(yes_asks) + Len(no_asks))
    /\ [](scenario = "walk" /\ walk.pc = "exhausted" =>
            walk.yes_idx > Len(yes_asks) \/ walk.no_idx > Len(no_asks))
    /\ [](scenario = "walk" /\ walk.pc = "break" =>
            HeadProfit(walk) < ArbitrageCalculator.min_profit_threshold)

\* A walk that starts on a level without size and visits every pair of
\* heads two ladders of two levels allow, a pass for each, the last pass
\* stopping on the threshold.
C17_Witness ==
    /\ scenario = "walk"
    /\ walk.pc = "break"
    /\ Len(yes_asks) = 2 /\ Len(no_asks) = 2
    /\ yes_asks[1].size <= 0
    /\ passes = 3
    /\ walk.yes_idx = 2 /\ walk.no_idx = 2

\* C18: _walk_orderbook, calculate_opportunity and find_all_opportunities
\* leave their arguments as they were: no step changes the ladders given to
\* a walk, the two books given to calculate_opportunity, or the pair list
\* and the two book maps given to find_all_opportunities (the same levels,
\* prices and sizes in the same order); the decrements of the walk show only
\* in its local remaining lists.
C18_InputsUnchanged ==
    [][(scenario \in {"walk", "calc", "all"}) =>
          /\ yes_asks' = yes_asks
          /\ no_asks' = no_asks
          /\ pair' = pair
          /\ kalshi_orderbook' = kalshi_orderbook
          /\ poly_orderbook' = poly_orderbook
          /\ pairs' = pairs
          /\ kalshi_orderbooks' = kalshi_orderbooks
          /\ poly_orderbooks' = poly_orderbooks]_vars

\* A walk that returned with a head partly consumed: its remaining list has
\* a smaller size than the ladder it was given.
C18_Witness ==
    /\ WalkReturned
    /\ Len(walk.levels) >= 1
    /\ \E k \in 1..Len(yes_asks) :
           /\ walk.yes_remaining[k].size > 0
           /\ walk.yes_remaining[k].size < yes_asks[k].size

\* C9: a walk over a ladder holding a malformed Price Level (negative size,
\* price outside [0,1]) signals InvalidInput: it never returns levels
\* computed from that ladder.
C9_MalformedInputFailsLoudly ==
    scenario = "walk" /\ (Malformed(yes_asks) \/ Malformed(no_asks)) =>
        ~(WalkReturned /\ walk.levels # <<>>)

----------------------------------------------------------------------------
(* Properties of the venue clients                                         *)

ClientReturned == scenario = "client" /\ status = "returned"

PriceNonIncreasing(levels) ==
    \A k \in 1..Len(levels) - 1 : ~FloatLess(levels[k].price, levels[k + 1].price)

PriceNonDecreasing(levels) ==
    \A k \in 1..Len(levels) - 1 : ~FloatLess(levels[k + 1].price, levels[k].price)

\* The entries of a Kalshi response that are levels, as [cents, size].
UsableEntries(entries) == {k \in 1..Len(entries) : Len(entries[k]) >= 2}

\* levels holds, for each usable entry of the response, one level of the
\* entry's size at the price the entry's cents are turned into, and nothing
\* else.
HoldsEntries(levels, entries, asks) ==
    LET level(k) ==
            OrderbookLevel(IF asks
                           THEN FloatSub(FloatOfInt(1), FloatOfRatio(entries[k][1], 100))
                           ELSE FloatOfRatio(entries[k][1], 100),
                           entries[k][2])
    IN  /\ Len(levels) = Cardinality(UsableEntries(entries))
        /\ \A k \in UsableEntries(entries) :
               Occurrences(levels, level(k))
                   = Cardinality({n \in UsableEntries(entries) : level(n) = level(k)})

\* C20: every Orderbook a venue client returns has yes_bids and no_bids in
\* non-increasing price order and yes_asks and no_asks in non-decreasing
\* price order, whatever the order of the levels in the response; a Kalshi
\* ask, priced 1 - price of a bid of the opposite side, has that bid's size.
C20_BooksSortedPerSide ==
    ClientReturned =>
        /\ PriceNonIncreasing(book.yes_bids)
        /\ PriceNonIncreasing(book.no_bids)
        /\ PriceNonDecreasing(book.yes_asks)
        /\ PriceNonDecreasing(book.no_asks)
        /\ response.venue = KALSHI =>
               /\ HoldsEntries(book.yes_bids, response.orderbook.yes, FALSE)
               /\ HoldsEntries(book.no_bids, response.orderbook.no, FALSE)
               /\ HoldsEntries(book.yes_asks, response.orderbook.no, TRUE)
               /\ HoldsEntries(book.no_asks, response.orderbook.yes, TRUE)

\* A Kalshi response whose YES bids come in ascending price with different
\* sizes: both the bids and the asks derived from them are reordered.
C20_Witness ==
    /\ ClientReturned
    /\ response.venue = KALSHI
    /\ Len(response.orderbook.yes) = 2
    /\ Len(book.yes_bids) = 2
    /\ response.orderbook.yes[1][1] < response.orderbook.yes[2][1]
    /\ response.orderbook.yes[1][2] # response.orderbook.yes[2][2]
    /\ book.yes_bids[1].size = response.orderbook.yes[2][2]
    /\ book.no_asks[1].size = response.orderbook.yes[2][2]

----------------------------------------------------------------------------
(* Properties of the polling loop                                          *)

\* The call is inside the while loop of run().
InLoop == bot.pc \in {"while", "poll_cycle", "sleep", "pause"}

\* The call has left run(), by return or by an exception.
RunOver == scenario = "run" /\ status # "called"

\* C21: in ArbitrageBot.run an ordinary exception of a poll cycle never ends
\* the polling loop, which goes on to a further cycle while running is true;
\* the loop ends only after stop() has set running to false, or on
\* cancellation or keyboard interrupt; and on every exit from the loop
\* _cleanup runs and closes both venue clients.
C21_LoopSurvivesErrorsAndCleansUp ==
    /\ [][(scenario = "run" /\ bot.pc = "poll_cycle" /\ bot'.errors > bot.errors)
            => bot'.pc = "pause"]_vars
    /\ [][(scenario = "run" /\ bot.pc = "pause" /\ status' = "called")
            => bot'.pc \in {"pause", "while"}]_vars
    /\ [][(scenario = "run" /\ bot.pc = "while" /\ bot.running /\ bot'.pc # "while")
            => bot'.pc = "poll_cycle"]_vars
    /\ [][(scenario = "run" /\ InLoop /\ ~InLoop')
            => (~bot.running /\ bot.stopped) \/ bot'.broke \in Interrupts
                  \/ status' \in Interrupts]_vars
    /\ [](RunOver => bot.kalshi_closed /\ bot.poly_closed)

----------------------------------------------------------------------------
(* Properties of the poll cycle                                            *)

PollReturned == scenario = "poll" /\ status = "returned"

\* Both order-book requests of the k-th pair gave a book.
BothFetched(k) == Usable(cycle.kalshi_results[k]) /\ Usable(cycle.poly_results[k])

\* What calculate_opportunity gives for the k-th pair on the two books fetched
\* for it.
FetchedOpportunity(k) ==
    calculate_opportunity(cycle.calculator, cycle.pairs[k],
                          cycle.kalshi_results[k].value, cycle.poly_results[k].value)

CycleOpportunitiesFor(k) ==
    {n \in 1..Len(cycle.opportunities) :
        cycle.opportunities[n].kalshi_market = cycle.pairs[k].kalshi_market}

\* C22: in one poll cycle a failed or empty order-book fetch for a matched
\* pair takes only that pair out of the arbitrage computation, every other
\* pair whose two books were fetched being evaluated on them; and a failure
\* to fetch the market lists ends the cycle before any matching or arbitrage
\* computation.
C22_FetchFailuresStayLocal ==
    scenario = "poll" =>
        /\ cycle.failed # {} =>
               /\ status = "returned"
               /\ ~cycle.matched /\ ~cycle.calculated
               /\ cycle.pairs = <<>> /\ cycle.opportunities = <<>>
        /\ PollReturned /\ cycle.calculated =>
               \A k \in 1..Len(cycle.pairs) :
                   IF BothFetched(k)
                   THEN IF FetchedOpportunity(k) # None
                        THEN \E n \in 1..Len(cycle.opportunities) :
                                 /\ CycleOpportunitiesFor(k) = {n}
                                 /\ cycle.opportunities[n] = FetchedOpportunity(k)
                        ELSE CycleOpportunitiesFor(k) = {}
                   ELSE CycleOpportunitiesFor(k) = {}

\* Two pairs: the first pair's Kalshi request fails, the second pair's two
\* books are fetched and its opportunity is the only one returned.
C22_Witness ==
    /\ PollReturned /\ cycle.calculated
    /\ Len(cycle.pairs) = 2
    /\ cycle.kalshi_results[1].kind = "Exception"
    /\ BothFetched(2)
    /\ Len(cycle.opportunities) = 1
    /\ CycleOpportunitiesFor(2) = {1}

----------------------------------------------------------------------------
(* Properties of the fee model                                             *)

KalshiFeeReturned ==
    scenario = "fee" /\ status = "returned" /\ fee_call.fn = "kalshi_taker_fee"

\* 0.07 * contracts * price * (1 - price) * 100 as a real number, in
\* ten-thousandths of a cent, for a price in cents.
UnroundedFee(contracts, price) == 7 * contracts * price * (100 - price)

\* The smallest integer >= num / den, den > 0.
Ceil(num, den) == 0 - ((0 - num) \div den)

\* C11: for a contract count >= 1 and a whole-cent price in [0,1],
\* kalshi_taker_fee in cents is the smallest integer >=
\* 0.07 * contracts * price * (1 - price) * 100: not below the unrounded
\* amount and less than one cent above it, zero at price 0 and at price 1,
\* and never larger than the fee of the same contract count at price 0.5.
C11_KalshiFeeIsExactCeiling ==
    KalshiFeeReturned /\ fee_call.contracts >= 1 =>
        LET unrounded == UnroundedFee(fee_call.contracts, fee_call.price)
        IN  /\ fee = Ceil(unrounded, 10000)
            /\ fee * 10000 >= unrounded
            /\ (fee - 1) * 10000 < unrounded
            /\ fee_call.price \in {0, 100} => fee = 0
            /\ fee <= kalshi_taker_fee(fee_call.contracts, 50)

\* C10: a fee call with a contract count that is zero or negative signals
\* InvalidInput: it returns no fee value.
C10_FeeRejectsNonPositiveContracts ==
    scenario = "fee" /\ fee_call.contracts <= 0 => status # "returned"

====
